---- MODULE Spec2Model ----
(***************************************************************************)
(* Problem-statement catalogue: the custom-id allocator of the             *)
(* ProblemStatement schema (pre-save hook, unique index on `id`) and the   *)
(* controllers that write the collection (createProblem, updateProblem,    *)
(* updateProblemStatus, toggleFeatured, deleteProblem, bulkUploadProblems).*)
(*                                                                         *)
(* Strings whose characters the code inspects (the custom id) are          *)
(* sequences of one-character strings.  Text whose content no branch of    *)
(* the code reads is kept as [pad, len]: `pad` blanks around `len`         *)
(* non-blank characters; enumerated text is kept as [pad, core].           *)
(***************************************************************************)
EXTENDS Integers, Sequences, FiniteSets, TLC

(***************************************************************************)
(* Bounds of the model.                                                    *)
(***************************************************************************)
\* documents constructed (ObjectIds handed out) in one behaviour of Spec
MaxKeys == 2
\* documents constructed in one behaviour of SpecSeq
MaxSeqKeys == 3
\* documents constructed in one behaviour of SpecCreate
MaxCreateKeys == 3
\* data rows of one uploaded CSV file
MaxRows == 2
\* documents constructed in one behaviour of SpecRetry
MaxRetryKeys == 4
\* documents constructed in one behaviour of SpecTemplate
MaxTemplateKeys == 11
\* submissions recorded in the Lead collection in one behaviour of SpecLeads
MaxSubmissions == 4
\* Lead documents constructed in one behaviour of SpecLeads
MaxLeadKeys == 3
\* lookups by custom id in one behaviour of SpecViews
MaxViews == 3
\* documents constructed in one behaviour of SpecEdit
MaxEditKeys == 2
\* documents constructed in one behaviour of SpecDelete
MaxDeleteKeys == 3
\* documents constructed in one behaviour of SpecPublic
MaxPublicKeys == 3
\* characters of a list column drawn for SpecList
MaxFieldLen == 5
\* documents constructed in one behaviour of SpecGate
MaxGateKeys == 2
\* documents constructed in one behaviour of SpecManual
MaxManualKeys == 2
\* documents constructed in one behaviour of SpecOwner
MaxOwnerKeys == 3
\* largest per-domain count the allocator is applied to in SpecGen
MaxCount == 1000

(***************************************************************************)
(* Characters and strings.                                                 *)
(***************************************************************************)
UpperSeq ==
  <<"A","B","C","D","E","F","G","H","I","J","K","L","M",
    "N","O","P","Q","R","S","T","U","V","W","X","Y","Z">>

LowerSeq ==
  <<"a","b","c","d","e","f","g","h","i","j","k","l","m",
    "n","o","p","q","r","s","t","u","v","w","x","y","z">>

DigitSeq == <<"0","1","2","3","4","5","6","7","8","9">>

UpperLetters == {UpperSeq[i] : i \in DOMAIN UpperSeq}

DigitChars == {DigitSeq[i] : i \in DOMAIN DigitSeq}

\* String.prototype.toUpperCase on one character
ToUpperChar(c) ==
  IF \E i \in DOMAIN LowerSeq : LowerSeq[i] = c
  THEN UpperSeq[CHOOSE i \in DOMAIN LowerSeq : LowerSeq[i] = c]
  ELSE c

\* String.prototype.toLowerCase
ToLowerChar(c) ==
  IF \E i \in DOMAIN UpperSeq : UpperSeq[i] = c
  THEN LowerSeq[CHOOSE i \in DOMAIN UpperSeq : UpperSeq[i] = c]
  ELSE c

ToLowerCase(s) == [i \in DOMAIN s |-> ToLowerChar(s[i])]

\* the `uppercase: true` setter
ToUpperCase(s) == [i \in DOMAIN s |-> ToUpperChar(s[i])]

RECURSIVE TrimStart(_)
TrimStart(s) ==
  IF s # <<>> /\ Head(s) = " " THEN TrimStart(Tail(s)) ELSE s

RECURSIVE TrimEnd(_)
TrimEnd(s) ==
  IF s # <<>> /\ s[Len(s)] = " " THEN TrimEnd(SubSeq(s, 1, Len(s) - 1)) ELSE s

\* the `trim: true` setter
Trim(s) == TrimEnd(TrimStart(s))

\* String(n) for a non-negative integer
RECURSIVE NumToString(_)
NumToString(n) ==
  IF n < 10 THEN <<DigitSeq[n + 1]>>
  ELSE NumToString(n \div 10) \o <<DigitSeq[(n % 10) + 1]>>

\* String.prototype.padStart with a one-character filler
RECURSIVE PadStart(_, _, _)
PadStart(s, width, ch) ==
  IF Len(s) >= width THEN s ELSE PadStart(<<ch>> \o s, width, ch)

\* /^[A-Z]{2,3}\d{3}$/.test(v)
IdRegexTest(v) ==
  /\ Len(v) \in {5, 6}
  /\ \A i \in 1..(Len(v) - 3) : v[i] \in UpperLetters
  /\ \A i \in (Len(v) - 2)..Len(v) : v[i] \in DigitChars

(***************************************************************************)
(* The schema of ProblemStatement.                                         *)
(***************************************************************************)
ValidDomains ==
  { "AI & Machine Learning", "IoT & Embedded Systems", "Cloud Computing",
    "Web & Mobile Applications", "Cybersecurity & Blockchain",
    "Data Science & Analytics", "Networking & Communication",
    "Mechanical / ECE Projects" }

ValidCategories == {"Major", "Minor", "Capstone"}

ValidDifficulties == {"Beginner", "Intermediate", "Advanced"}

ValidStatuses == {"Active", "Draft", "Archived"}

TitleMaxLength == 200

AbstractMaxLength == 5000

DurationMaxLength == 50

domainPrefixMap ==
  ("AI & Machine Learning" :> <<"A","I","M">>) @@
  ("IoT & Embedded Systems" :> <<"I","O","T">>) @@
  ("Cloud Computing" :> <<"C","L","D">>) @@
  ("Web & Mobile Applications" :> <<"W","E","B">>) @@
  ("Cybersecurity & Blockchain" :> <<"C","Y","S">>) @@
  ("Data Science & Analytics" :> <<"D","A","T">>) @@
  ("Networking & Communication" :> <<"N","E","T">>) @@
  ("Mechanical / ECE Projects" :> <<"M","E","C">>)

\* domainPrefixMap[domain] || 'GEN'
DomainPrefix(domain) ==
  IF domain \in DOMAIN domainPrefixMap
  THEN domainPrefixMap[domain]
  ELSE <<"G","E","N">>

\* countDocuments({ domain })
CountDocuments(s, domain) ==
  Cardinality({k \in DOMAIN s : s[k].domain = domain})

\* `${domainPrefix}${String(count + 1).padStart(3, '0')}`
GenerateId(domain, count) ==
  DomainPrefix(domain) \o PadStart(NumToString(count + 1), 3, "0")

\* fault: the hook allocates whatever id the document carries
PreSaveNeedsIdAlways(doc) == TRUE

\* the condition of the pre-save hook: !this.id || !regex.test(this.id)
PreSaveNeedsId(doc) ==
  doc.id = <<>> \/ ~IdRegexTest(doc.id)

\* the setters of the `id` path: trim, then uppercase
SetId(v) == ToUpperCase(Trim(v))

\* the validator of the `id` path: !v || regex.test(v)
IdValidator(v) == v = <<>> \/ IdRegexTest(v)

\* fault: the collection without the unique index
DuplicateKeyNoIndex(s, k, id) == FALSE

\* the unique index on `id`: another document already holds this value
DuplicateKey(s, k, id) ==
  \E j \in DOMAIN s \ {k} : s[j].id = id

(***************************************************************************)
(* Text values.                                                            *)
(***************************************************************************)
Text(pad, len) == [pad |-> pad, len |-> len]

\* s.trim() on text kept by size
TrimText(t) == [pad |-> 0, len |-> t.len]

\* s.length
TextLength(t) == t.pad + t.len

Token(pad, core) == [pad |-> pad, core |-> core]

\* s.trim() on enumerated text: the core without the blanks around it
TrimToken(t) == t.core

\* !s || s.trim() === ''
BlankToken(t) == t.core = ""

\* !s
EmptyToken(t) == t.core = "" /\ t.pad = 0

(***************************************************************************)
(* Documents.  A stored document keeps the paths some handler reads back;  *)
(* the document under construction also carries the paths the schema       *)
(* validates.                                                              *)
(***************************************************************************)
Has(r, f) == f \in DOMAIN r

\* new ProblemStatement(data): setters and defaults of the schema
NewDocument(data) ==
  [ id          |-> IF Has(data, "id") THEN SetId(data.id) ELSE <<>>,
    title       |-> IF Has(data, "title") THEN TrimText(data.title) ELSE Text(0, 0),
    abstract    |-> IF Has(data, "abstract") THEN data.abstract ELSE Text(0, 0),
    domain      |-> IF Has(data, "domain") THEN data.domain ELSE "",
    category    |-> IF Has(data, "category") THEN data.category ELSE "Major",
    difficulty  |-> IF Has(data, "difficulty") THEN data.difficulty ELSE "Intermediate",
    duration    |-> IF Has(data, "duration") THEN TrimText(data.duration) ELSE Text(0, 0),
    status      |-> IF Has(data, "status") THEN data.status ELSE "Draft",
    featured    |-> IF Has(data, "featured") THEN data.featured ELSE FALSE,
    createdBy   |-> IF Has(data, "createdBy") THEN data.createdBy ELSE "",
    viewCount   |-> IF Has(data, "viewCount") THEN data.viewCount ELSE 0 ]

\* Document.validate(): the paths the schema rejects
SchemaValidationErrors(doc) ==
  {f \in {"id", "title", "abstract", "domain", "category", "difficulty",
          "duration", "status", "createdBy", "viewCount"} :
     \/ f = "id" /\ ~IdValidator(doc.id)
     \/ f = "title" /\ (TextLength(doc.title) = 0
                         \/ TextLength(doc.title) > TitleMaxLength)
     \/ f = "abstract" /\ (TextLength(doc.abstract) = 0
                            \/ TextLength(doc.abstract) > AbstractMaxLength)
     \/ f = "domain" /\ doc.domain \notin ValidDomains
     \/ f = "category" /\ doc.category \notin ValidCategories
     \/ f = "difficulty" /\ doc.difficulty \notin ValidDifficulties
     \/ f = "duration" /\ (TextLength(doc.duration) = 0
                            \/ TextLength(doc.duration) > DurationMaxLength)
     \/ f = "status" /\ doc.status \notin ValidStatuses
     \/ f = "createdBy" /\ doc.createdBy = ""
     \/ f = "viewCount" /\ doc.viewCount < 0}

\* the paths of a document kept in the collection
StoredPaths == {"id", "domain", "status", "featured", "createdBy", "viewCount"}

Stored(doc) == [f \in StoredPaths |-> doc[f]]

EmptyDocument == NewDocument(<<>>)

(***************************************************************************)
(* Users, as the auth middleware attaches them to a request.               *)
(***************************************************************************)
Users == {"admin1", "faculty1"}

Role ==
  ("admin1" :> "admin") @@ ("faculty1" :> "faculty") @@ ("faculty2" :> "faculty")
    @@ ("student1" :> "student")

\* authorize(...roles)
Authorized(user, roles) == Role[user] \in roles

(***************************************************************************)
(* State.                                                                  *)
(***************************************************************************)
VARIABLES
  store,     \* the ProblemStatement collection: _id -> stored document
  nextKey,   \* the next ObjectId to hand out
  req,       \* the requests in flight: slot -> locals of its handler
  allocLog,  \* history: domain -> the ids the allocator assigned and persisted, in order
  run,       \* history: the current run of allocations into a fresh domain
  created,   \* history: _id -> what the allocator derived for it and its outcome
  retry,     \* history: the creation re-submitted after it lost a race
  imports,   \* history: the collection as each import of the template left it
  asked,     \* history: the request a slot's handler was last called with
  hits,      \* history: _id -> the lookups by custom id answered 200 for it
  leads,     \* the Lead collection: _id -> stored document
  calc,      \* a column of a CSV row and what the loop makes of it
  gen        \* the allocator applied to one document (SpecGen)

vars == <<store, nextKey, req, allocLog, run, created, retry, imports, asked, hits, leads, calc, gen>>

Procs == {"r1", "r2"}

NoCount == -1

NoResp == [via |-> "none", status |-> 0, error |-> ""]

\* res.status(code).json(...)
Json(code) == [via |-> "json", status |-> code, error |-> ""]

\* next(error): the error middleware answers
NextError(name) == [via |-> "next", status |-> 0, error |-> name]

NoResults == [imported |-> 0, failed |-> 0, errors |-> <<>>]

\* req.file of a request without upload
NoUpload == [file |-> FALSE, parses |-> FALSE]

IdleReq ==
  [ pc |-> "idle", op |-> "none", user |-> "", key |-> 0, body |-> <<>>,
    doc |-> EmptyDocument, count |-> NoCount, resp |-> NoResp,
    modified |-> {}, upload |-> NoUpload, rows |-> <<>>, i |-> 0,
    results |-> NoResults, errors |-> <<>>, data |-> <<>> ]

Free(p) == req[p].pc \in {"idle", "done"}

NoRun == [domain |-> "", outs |-> <<>>]

NoAsk == [op |-> "none", user |-> "", input |-> <<>>]

NoCalc == [pc |-> "none", row |-> [title |-> ""], parsed |-> <<>>]

NoRetry == [phase |-> "none", domain |-> "", key |-> 0, count |-> NoCount, id |-> <<>>]

NoGen == [doc |-> EmptyDocument, given |-> <<>>, count |-> 0, pc |-> "none"]

InitCommon ==
  /\ store = <<>>
  /\ nextKey = 1
  /\ req = [p \in Procs |-> IdleReq]
  /\ allocLog = [d \in ValidDomains |-> <<>>]
  /\ run = NoRun
  /\ created = <<>>
  /\ retry = NoRetry
  /\ imports = <<>>
  /\ asked = NoAsk
  /\ hits = <<>>
  /\ leads = <<>>
  /\ calc = NoCalc

Init ==
  /\ InitCommon
  /\ gen = NoGen

(***************************************************************************)
(* SpecGen: the pre-save hook as a function of the document and of the     *)
(* count it reads.                                                         *)
(***************************************************************************)
\* ProblemStatementSchema.pre('save') given the result of countDocuments
PreSave(doc, count) ==
  IF PreSaveNeedsId(doc)
  THEN [doc EXCEPT !.id = GenerateId(doc.domain, count)]
  ELSE doc

GenIds ==
  { <<>>, <<"A","I","0","0","7">>, <<"W","E","B","0","4","2">>,
    <<"A","I","M","0","0","1">>, <<"Z","Z","9","9","9">> }

GenDomains == ValidDomains \cup {"Robotics"}

InitGen ==
  /\ InitCommon
  /\ gen \in { [doc |-> [EmptyDocument EXCEPT !.id = v, !.domain = d],
               given |-> v, count |-> c, pc |-> "new"] :
               v \in GenIds, d \in GenDomains, c \in 0..MaxCount }

RunPreSave ==
  /\ gen.pc = "new"
  /\ gen' = [gen EXCEPT !.doc = PreSave(gen.doc, gen.count), !.pc = "saved"]
  /\ UNCHANGED <<store, nextKey, req, allocLog, run, created, retry, imports, asked, hits, leads, calc>>

NextGen == RunPreSave

SpecGen == InitGen /\ [][NextGen]_vars

(***************************************************************************)
(* Requests the model issues.                                              *)
(***************************************************************************)
DomainInputs == {"AI & Machine Learning", "IoT & Embedded Systems"}

SuppliedIds ==
  { <<"A","I","M","0","0","1">>, <<"a","i","m","0","0","2">>, <<"A","1">> }

BaseBody(domain) ==
  [ title |-> Text(0, 5), abstract |-> Text(0, 50), domain |-> domain,
    category |-> "Major", difficulty |-> "Advanced", duration |-> Text(0, 8),
    technologies |-> 1, deliverables |-> 1 ]

CreateBodies ==
  {BaseBody(d) : d \in DomainInputs}
    \cup {("id" :> v) @@ BaseBody(d) : v \in SuppliedIds, d \in DomainInputs}
    \cup {[BaseBody("AI & Machine Learning") EXCEPT !.title = Text(1, 4)]}

UpdateBodies ==
  { [id |-> <<"A","I","M","0","0","2">>], [id |-> <<>>], [id |-> <<"A","1">>],
    [domain |-> "IoT & Embedded Systems"] }

StatusInputs == {"Active", "Archived", "Published"}

\* the model hands out ObjectIds 1, 2, ...: n more stay within max
KeysLeft(n, max) == nextKey + n - 1 <= max

KeysUpTo(max) == 1..max

\* a handler that answers in its first step
Reply(p, op, user, resp) ==
  [IdleReq EXCEPT !.pc = "done", !.op = op, !.resp = resp]

\* the handler answers: its locals die with it, the history columns stay
Finish(p, resp) ==
  [req EXCEPT ![p] = [IdleReq EXCEPT !.pc = "done", !.op = req[p].op,
                                     !.resp = resp]]

(***************************************************************************)
(* POST /api/v1/problems: express-validator chain, then createProblem.     *)
(***************************************************************************)
\* fault: the chain has no isArray({ min: 1 }) checks
RouteValidationErrorsNoArrays(body) ==
  {f \in {"title", "abstract", "domain", "category", "difficulty", "duration"} :
     \/ f = "title" /\ ~(Has(body, f) /\ body[f].len \in 5..200)
     \/ f = "abstract" /\ ~(Has(body, f) /\ body[f].len \in 50..5000)
     \/ f = "domain" /\ ~(Has(body, f) /\ body[f] \in ValidDomains)
     \/ f = "category" /\ ~(Has(body, f) /\ body[f] \in ValidCategories)
     \/ f = "difficulty" /\ ~(Has(body, f) /\ body[f] \in ValidDifficulties)
     \/ f = "duration" /\ ~(Has(body, f) /\ body[f].len \in 1..50)}

\* the chain of router.post('/'): the fields validationResult reports
RouteValidationErrors(body) ==
  {f \in {"title", "abstract", "domain", "category", "difficulty", "duration",
          "deliverables", "technologies"} :
     \/ f = "title" /\ ~(Has(body, f) /\ body[f].len \in 5..200)
     \/ f = "abstract" /\ ~(Has(body, f) /\ body[f].len \in 50..5000)
     \/ f = "domain" /\ ~(Has(body, f) /\ body[f] \in ValidDomains)
     \/ f = "category" /\ ~(Has(body, f) /\ body[f] \in ValidCategories)
     \/ f = "difficulty" /\ ~(Has(body, f) /\ body[f] \in ValidDifficulties)
     \/ f = "duration" /\ ~(Has(body, f) /\ body[f].len \in 1..50)
     \/ f = "deliverables" /\ ~(Has(body, f) /\ body[f] >= 1)
     \/ f = "technologies" /\ ~(Has(body, f) /\ body[f] >= 1)}

\* the .trim() sanitizers of the chain rewrite req.body
SanitizeBody(body) ==
  [f \in DOMAIN body |->
     IF f \in {"title", "abstract", "duration"} THEN TrimText(body[f]) ELSE body[f]]

\* fault: the spread comes last, so a createdBy of the body wins
ProblemDataBodyWins(body, user) == SanitizeBody(body) @@ ("createdBy" :> user)

\* { ...req.body, createdBy: req.user?.id }
ProblemData(body, user) == ("createdBy" :> user) @@ SanitizeBody(body)

\* ProblemStatement.create(data) up to the first database call: construct,
\* validate, run the pre-save hook (which reads the per-domain count)
CreateProblemBegin(p, user, body) ==
  /\ Free(p)
  /\ Authorized(user, {"admin", "faculty"})
  /\ LET doc   == NewDocument(ProblemData(body, user))
         count == CountDocuments(store, doc.domain)
         needs == PreSaveNeedsId(doc)
     IN  IF RouteValidationErrors(body) # {}
         THEN /\ req' = [req EXCEPT ![p] =
                           Reply(p, "createProblem", user, Json(400))]
              /\ UNCHANGED nextKey
         ELSE /\ nextKey' = nextKey + 1
              /\ IF SchemaValidationErrors(doc) # {}
                 THEN req' = [req EXCEPT ![p] =
                                Reply(p, "createProblem", user,
                                      NextError("ValidationError"))]
                 ELSE req' = [req EXCEPT ![p] =
                                [IdleReq EXCEPT
                                   !.pc = "c_insert", !.op = "createProblem",
                                   !.user = user, !.body = body, !.key = nextKey,
                                   !.doc = PreSave(doc, count),
                                   !.count = IF needs THEN count ELSE NoCount]]
  /\ UNCHANGED store

\* fault: a duplicate key is swallowed and answered like a success
CreateProblemInsertSwallow(p) ==
  /\ req[p].pc = "c_insert"
  /\ IF DuplicateKey(store, req[p].key, req[p].doc.id)
     THEN /\ req' = Finish(p, Json(201))
          /\ UNCHANGED store
     ELSE /\ store' = (req[p].key :> Stored(req[p].doc)) @@ store
          /\ req' = [req EXCEPT ![p].pc = "c_populate"]
  /\ UNCHANGED nextKey

\* the insert of ProblemStatement.create: the unique index decides
CreateProblemInsert(p) ==
  /\ req[p].pc = "c_insert"
  /\ IF DuplicateKey(store, req[p].key, req[p].doc.id)
     THEN /\ req' = Finish(p, NextError("E11000"))
          /\ UNCHANGED store
     ELSE /\ store' = (req[p].key :> Stored(req[p].doc)) @@ store
          /\ req' = [req EXCEPT ![p].pc = "c_populate"]
  /\ UNCHANGED nextKey

\* findById(problem._id).populate(...), then the 201 response
CreateProblemRespond(p) ==
  /\ req[p].pc = "c_populate"
  /\ req' = Finish(p, Json(201))
  /\ UNCHANGED <<store, nextKey>>

(***************************************************************************)
(* PUT /api/v1/problems/:id: updateProblem.                                *)
(***************************************************************************)
\* what save() reads of a loaded document: the paths of the pre-save hook
\* (id, domain) and the paths the handler modifies
Loaded(d, paths) == [f \in {"id", "domain"} \cup paths |-> d[f]]

\* fault: the handler does not compare the creator with the requester
FindForEditNoOwnerCheck(p, op, user, k) ==
  IF k \notin DOMAIN store
  THEN Reply(p, op, user, Json(404))
  ELSE [IdleReq EXCEPT !.pc = "found", !.op = op, !.key = k,
                       !.doc = Loaded(store[k], {"status"})]

\* findById, the 404 and the 403 of a handler that edits one document
FindForEdit(p, op, user, k) ==
  IF k \notin DOMAIN store
  THEN Reply(p, op, user, Json(404))
  ELSE IF store[k].createdBy # user /\ Role[user] # "admin"
  THEN Reply(p, op, user, Json(403))
  ELSE [IdleReq EXCEPT !.pc = "found", !.op = op, !.key = k,
                       !.doc = Loaded(store[k], {"status"})]

UpdateProblemFind(p, user, k, body) ==
  /\ Free(p)
  /\ Authorized(user, {"admin", "faculty"})
  /\ LET r == FindForEdit(p, "updateProblem", user, k)
     IN  req' = [req EXCEPT ![p] =
                   IF r.pc = "found"
                   THEN [r EXCEPT !.pc = "u_update", !.body = body,
                                  !.doc = EmptyDocument]
                   ELSE r]
  /\ UNCHANGED <<store, nextKey>>

\* the update document after casting: setters run on the paths it sets
CastUpdate(body) ==
  [f \in DOMAIN body |-> IF f = "id" THEN SetId(body[f]) ELSE body[f]]

\* runValidators: true: the validators of the paths the update sets
UpdateValidationErrors(upd) ==
  {f \in DOMAIN upd :
     \/ f = "id" /\ ~IdValidator(upd[f])
     \/ f = "domain" /\ upd[f] \notin ValidDomains
     \/ f = "status" /\ upd[f] \notin ValidStatuses}

\* findByIdAndUpdate(req.params.id, req.body, { new: true, runValidators: true })
UpdateProblemWrite(p) ==
  /\ req[p].pc = "u_update"
  /\ LET k   == req[p].key
         upd == CastUpdate(req[p].body)
     IN  IF UpdateValidationErrors(upd) # {}
         THEN /\ req' = Finish(p, NextError("ValidationError"))
              /\ UNCHANGED store
         ELSE IF k \notin DOMAIN store
         THEN /\ req' = Finish(p, Json(200))
              /\ UNCHANGED store
         ELSE IF Has(upd, "id") /\ DuplicateKey(store, k, upd.id)
         THEN /\ req' = Finish(p, NextError("E11000"))
              /\ UNCHANGED store
         ELSE /\ store' = [store EXCEPT ![k] =
                             [f \in StoredPaths |->
                                IF Has(upd, f) THEN upd[f] ELSE @[f]]]
              /\ req' = Finish(p, Json(200))
  /\ UNCHANGED nextKey

(***************************************************************************)
(* PUT /:id/status and PUT /:id/featured: load, edit, problem.save().      *)
(***************************************************************************)
UpdateProblemStatusFind(p, user, k, status) ==
  /\ Free(p)
  /\ Authorized(user, {"admin", "faculty"})
  /\ LET r == FindForEdit(p, "updateProblemStatus", user, k)
     IN  req' = [req EXCEPT ![p] =
                   IF status \notin {"Active", "Draft", "Archived"}
                   THEN Reply(p, "updateProblemStatus", user, Json(400))
                   ELSE IF r.pc = "found"
                   THEN [r EXCEPT !.doc.status = status,
                                  !.modified = IF r.doc.status = status
                                               THEN {} ELSE {"status"}]
                   ELSE r]
  /\ UNCHANGED <<store, nextKey>>

ToggleFeaturedFind(p, user, k) ==
  /\ Free(p)
  /\ Authorized(user, {"admin"})
  /\ req' = [req EXCEPT ![p] =
               IF k \notin DOMAIN store
               THEN Reply(p, "toggleFeatured", user, Json(404))
               ELSE [IdleReq EXCEPT
                       !.pc = "found", !.op = "toggleFeatured",
                       !.key = k,
                       !.doc = [Loaded(store[k], {"featured"})
                                  EXCEPT !.featured = ~store[k].featured],
                       !.modified = {"featured"}]]
  /\ UNCHANGED <<store, nextKey>>

\* save() of a loaded document, pre-save hook: the hook finds no valid id and
\* reads the per-domain count
DocSaveCount(p) ==
  /\ req[p].pc = "found"
  /\ PreSaveNeedsId(req[p].doc)
  /\ LET count == CountDocuments(store, req[p].doc.domain)
     IN  req' = [req EXCEPT ![p].pc = "sv_write",
                            ![p].count = count,
                            ![p].doc = PreSave(req[p].doc, count),
                            ![p].modified = @ \cup {"id"}]
  /\ UNCHANGED <<store, nextKey>>

\* save() of a loaded document: the update of its modified paths
DocSaveWrite(p) ==
  /\ req[p].pc \in {"found", "sv_write"}
  /\ req[p].pc = "found" => ~PreSaveNeedsId(req[p].doc)
  /\ LET k   == req[p].key
         doc == req[p].doc
         mod == req[p].modified
     IN  IF mod = {}
         THEN /\ req' = Finish(p, Json(200))
              /\ UNCHANGED store
         ELSE IF k \notin DOMAIN store
         THEN /\ req' = Finish(p, NextError("DocumentNotFoundError"))
              /\ UNCHANGED store
         ELSE IF "id" \in mod /\ DuplicateKey(store, k, doc.id)
         THEN /\ req' = Finish(p, NextError("E11000"))
              /\ UNCHANGED store
         ELSE /\ store' = [store EXCEPT ![k] =
                             [f \in StoredPaths |->
                                IF f \in mod THEN doc[f] ELSE @[f]]]
              /\ req' = Finish(p, Json(200))
  /\ UNCHANGED nextKey

(***************************************************************************)
(* DELETE /api/v1/problems/:id: deleteProblem.                             *)
(***************************************************************************)
DeleteProblemFind(p, user, k) ==
  /\ Free(p)
  /\ Authorized(user, {"admin"})
  /\ req' = [req EXCEPT ![p] =
               IF k \notin DOMAIN store
               THEN Reply(p, "deleteProblem", user, Json(404))
               ELSE [IdleReq EXCEPT !.pc = "d_delete", !.op = "deleteProblem",
                                    !.key = k]]
  /\ UNCHANGED <<store, nextKey>>

\* findByIdAndDelete(req.params.id)
DeleteProblemWrite(p) ==
  /\ req[p].pc = "d_delete"
  /\ store' = [j \in DOMAIN store \ {req[p].key} |-> store[j]]
  /\ req' = Finish(p, Json(200))
  /\ UNCHANGED nextKey

(***************************************************************************)
(* POST /api/v1/problems/bulk-upload: bulkUploadProblems.  A parsed row    *)
(* maps the columns to their raw text; an absent column is the empty text. *)
(***************************************************************************)
\* fault: the checks stop after the required fields when one of them is blank
RowValidationErrorsShortCircuit(row) ==
  LET Check(bad, msg) == IF bad THEN <<msg>> ELSE <<>>
      required ==
        Check(TextLength(row.title) = 0 \/ row.title.len = 0, "Title is required")
        \o Check(TextLength(row.abstract) = 0 \/ row.abstract.len = 0, "Abstract is required")
        \o Check(EmptyToken(row.domain) \/ BlankToken(row.domain), "Domain is required")
        \o Check(EmptyToken(row.category) \/ BlankToken(row.category), "Category is required")
        \o Check(EmptyToken(row.difficulty) \/ BlankToken(row.difficulty), "Difficulty is required")
        \o Check(TextLength(row.duration) = 0 \/ row.duration.len = 0, "Duration is required")
  IN  IF required # <<>> THEN required
      ELSE Check(TrimToken(row.domain) \notin ValidDomains, "Invalid domain")
           \o Check(TrimToken(row.category) \notin ValidCategories, "Invalid category")
           \o Check(TrimToken(row.difficulty) \notin ValidDifficulties, "Invalid difficulty")

\* the messages of the required-field and enumeration checks, in code order
RowValidationErrors(row) ==
  LET Check(bad, msg) == IF bad THEN <<msg>> ELSE <<>>
  IN  Check(TextLength(row.title) = 0 \/ row.title.len = 0, "Title is required")
      \o Check(TextLength(row.abstract) = 0 \/ row.abstract.len = 0, "Abstract is required")
      \o Check(EmptyToken(row.domain) \/ BlankToken(row.domain), "Domain is required")
      \o Check(EmptyToken(row.category) \/ BlankToken(row.category), "Category is required")
      \o Check(EmptyToken(row.difficulty) \/ BlankToken(row.difficulty), "Difficulty is required")
      \o Check(TextLength(row.duration) = 0 \/ row.duration.len = 0, "Duration is required")
      \o Check(~EmptyToken(row.domain) /\ TrimToken(row.domain) \notin ValidDomains,
               "Invalid domain")
      \o Check(~EmptyToken(row.category) /\ TrimToken(row.category) \notin ValidCategories,
               "Invalid category")
      \o Check(~EmptyToken(row.difficulty) /\ TrimToken(row.difficulty) \notin ValidDifficulties,
               "Invalid difficulty")

\* the problemData of a row that passed the checks
\* fault: featured is compared without toLowerCase()
RowProblemDataExactCase(row, user) ==
  [ title      |-> TrimText(row.title),
    abstract   |-> TrimText(row.abstract),
    domain     |-> TrimToken(row.domain),
    category   |-> TrimToken(row.category),
    difficulty |-> TrimToken(row.difficulty),
    duration   |-> TrimText(row.duration),
    status     |-> IF TrimToken(row.status) = "" THEN "Draft" ELSE TrimToken(row.status),
    featured   |-> row.featured = <<"t","r","u","e">>,
    createdBy  |-> user ]

RowProblemData(row, user) ==
  [ title      |-> TrimText(row.title),
    abstract   |-> TrimText(row.abstract),
    domain     |-> TrimToken(row.domain),
    category   |-> TrimToken(row.category),
    difficulty |-> TrimToken(row.difficulty),
    duration   |-> TrimText(row.duration),
    status     |-> IF TrimToken(row.status) = "" THEN "Draft" ELSE TrimToken(row.status),
    featured   |-> ToLowerCase(row.featured) = <<"t","r","u","e">>,
    createdBy  |-> user ]

\* fault: the row number counts the data rows from one
RowNumberFromOne(i) == i + 1

\* const rowNumber = i + 2
RowNumber(i) == i + 2

\* errors.push({ row, field, message })
ErrorEntry(rowNumber, field, message) ==
  [row |-> rowNumber, field |-> field, message |-> message]

\* fault: the catch records the entry and forgets failed++
RowCaughtUncounted(r, rowNumber, message) ==
  [r EXCEPT !.pc = "b_loop", !.i = @ + 1,
            !.doc = EmptyDocument, !.count = NoCount,
            !.errors = Append(@, ErrorEntry(rowNumber, "database", message))]

\* fault: the catch puts its entry in front of the list
RowCaughtUnshift(r, rowNumber, message) ==
  [r EXCEPT !.pc = "b_loop", !.i = @ + 1,
            !.doc = EmptyDocument, !.count = NoCount,
            !.errors = <<ErrorEntry(rowNumber, "database", message)>> \o @,
            !.results.failed = @ + 1]

\* fault: the catch records the failure and leaves the loop
RowCaughtAbort(r, rowNumber, message) ==
  [r EXCEPT !.pc = "b_loop", !.i = Len(r.rows),
            !.doc = EmptyDocument, !.count = NoCount,
            !.errors = Append(@, ErrorEntry(rowNumber, "database", message)),
            !.results.failed = @ + 1]

\* the catch of the loop body: one 'database' entry, failed++
RowCaught(r, rowNumber, message) ==
  [r EXCEPT !.pc = "b_loop", !.i = @ + 1,
            !.doc = EmptyDocument, !.count = NoCount,
            !.errors = Append(@, ErrorEntry(rowNumber, "database", message)),
            !.results.failed = @ + 1]

\* what the handler is given: whether req.file is there, whether csv-parser
\* reads it to the end without an 'error' event
Given(upload) == [file |-> upload.file, parses |-> upload.parses]

\* fault: the 'error' event of the parser resolves the promise
BulkUploadBeginLenient(p, user, upload) ==
  /\ Free(p)
  /\ Authorized(user, {"admin", "faculty"})
  /\ IF ~upload.file
     THEN /\ req' = [req EXCEPT ![p] =
                       [Reply(p, "bulkUploadProblems", user, Json(400))
                          EXCEPT !.upload = Given(upload)]]
          /\ UNCHANGED nextKey
     ELSE /\ nextKey' = nextKey + Len(upload.rows)
          /\ req' = [req EXCEPT ![p] =
                       [IdleReq EXCEPT !.pc = "b_loop", !.op = "bulkUploadProblems",
                                       !.user = user, !.key = nextKey,
                                       !.upload = Given(upload),
                                       !.rows = upload.rows]]
  /\ UNCHANGED store

\* the handler up to the loop: the file check and the CSV parse
BulkUploadBegin(p, user, upload) ==
  /\ Free(p)
  /\ Authorized(user, {"admin", "faculty"})
  /\ IF ~upload.file
     THEN /\ req' = [req EXCEPT ![p] =
                       [Reply(p, "bulkUploadProblems", user, Json(400))
                          EXCEPT !.upload = Given(upload)]]
          /\ UNCHANGED nextKey
     ELSE IF ~upload.parses
     THEN /\ req' = [req EXCEPT ![p] =
                       [Reply(p, "bulkUploadProblems", user, NextError("ParseError"))
                          EXCEPT !.upload = Given(upload)]]
          /\ UNCHANGED nextKey
     ELSE /\ nextKey' = nextKey + Len(upload.rows)
          /\ req' = [req EXCEPT ![p] =
                       [IdleReq EXCEPT !.pc = "b_loop", !.op = "bulkUploadProblems",
                                       !.user = user, !.key = nextKey,
                                       !.upload = Given(upload),
                                       !.rows = upload.rows]]
  /\ UNCHANGED store

\* fault: ProblemStatement.create is not awaited: the row is counted as
\* imported and the loop moves on while its insert is still to come
BulkUploadRowNoAwait(p) ==
  /\ req[p].pc = "b_loop"
  /\ req[p].i < Len(req[p].rows)
  /\ LET r         == req[p]
         row       == r.rows[r.i + 1]
         rowNumber == RowNumber(r.i)
         verrs     == RowValidationErrors(row)
         doc       == NewDocument(RowProblemData(row, r.user))
         count     == CountDocuments(store, doc.domain)
     IN  IF verrs # <<>>
         THEN req' = [req EXCEPT ![p] =
                        [r EXCEPT !.i = @ + 1,
                                  !.errors = @ \o [n \in DOMAIN verrs |->
                                     ErrorEntry(rowNumber, "validation", verrs[n])],
                                  !.results.failed = @ + 1]]
         ELSE IF SchemaValidationErrors(doc) # {}
         THEN req' = [req EXCEPT ![p] = RowCaught(r, rowNumber, "ValidationError")]
         ELSE req' = [req EXCEPT ![p] =
                        [r EXCEPT !.pc = "b_insert", !.i = @ + 1,
                                  !.results.imported = @ + 1,
                                  !.doc = PreSave(doc, count),
                                  !.count = IF PreSaveNeedsId(doc) THEN count
                                            ELSE NoCount]]
  /\ UNCHANGED <<store, nextKey>>

\* fault: a row that fails the checks is counted once per message
BulkUploadRowPerMessage(p) ==
  /\ req[p].pc = "b_loop"
  /\ req[p].i < Len(req[p].rows)
  /\ LET r         == req[p]
         row       == r.rows[r.i + 1]
         rowNumber == r.i + 2
         verrs     == RowValidationErrors(row)
         doc       == NewDocument(RowProblemData(row, r.user))
         count     == CountDocuments(store, doc.domain)
     IN  IF verrs # <<>>
         THEN req' = [req EXCEPT ![p] =
                        [r EXCEPT !.i = @ + 1,
                                  !.errors = @ \o [n \in DOMAIN verrs |->
                                     ErrorEntry(rowNumber, "validation", verrs[n])],
                                  !.results.failed = @ + Len(verrs)]]
         ELSE IF SchemaValidationErrors(doc) # {}
         THEN req' = [req EXCEPT ![p] = RowCaught(r, rowNumber, "ValidationError")]
         ELSE req' = [req EXCEPT ![p] =
                        [r EXCEPT !.pc = "b_insert",
                                  !.doc = PreSave(doc, count),
                                  !.count = IF PreSaveNeedsId(doc) THEN count
                                            ELSE NoCount]]
  /\ UNCHANGED <<store, nextKey>>

\* one turn of the loop up to its database call: the checks of row i, then
\* ProblemStatement.create up to the count of the pre-save hook
BulkUploadRow(p) ==
  /\ req[p].pc = "b_loop"
  /\ req[p].i < Len(req[p].rows)
  /\ LET r         == req[p]
         row       == r.rows[r.i + 1]
         rowNumber == RowNumber(r.i)
         verrs     == RowValidationErrors(row)
         doc       == NewDocument(RowProblemData(row, r.user))
         count     == CountDocuments(store, doc.domain)
     IN  IF verrs # <<>>
         THEN req' = [req EXCEPT ![p] =
                        [r EXCEPT !.i = @ + 1,
                                  !.errors = @ \o [n \in DOMAIN verrs |->
                                     ErrorEntry(rowNumber, "validation", verrs[n])],
                                  !.results.failed = @ + 1]]
         ELSE IF SchemaValidationErrors(doc) # {}
         THEN req' = [req EXCEPT ![p] = RowCaught(r, rowNumber, "ValidationError")]
         ELSE req' = [req EXCEPT ![p] =
                        [r EXCEPT !.pc = "b_insert",
                                  !.doc = PreSave(doc, count),
                                  !.count = IF PreSaveNeedsId(doc) THEN count
                                            ELSE NoCount]]
  /\ UNCHANGED <<store, nextKey>>

\* fault: the row is written and then reported as failed
BulkUploadInsertThenThrow(p) ==
  /\ req[p].pc = "b_insert"
  /\ LET r == req[p]
         k == r.key + r.i
     IN  IF DuplicateKey(store, k, r.doc.id)
         THEN /\ req' = [req EXCEPT ![p] = RowCaught(r, r.i + 2, "E11000")]
              /\ UNCHANGED store
         ELSE /\ store' = (k :> Stored(r.doc)) @@ store
              /\ req' = [req EXCEPT ![p] = RowCaught(r, r.i + 2, "Error")]
  /\ UNCHANGED nextKey

\* the insert of row i: imported++, or the catch
BulkUploadInsert(p) ==
  /\ req[p].pc = "b_insert"
  /\ LET r == req[p]
         k == r.key + r.i
     IN  IF DuplicateKey(store, k, r.doc.id)
         THEN /\ req' = [req EXCEPT ![p] = RowCaught(r, RowNumber(r.i), "E11000")]
              /\ UNCHANGED store
         ELSE /\ store' = (k :> Stored(r.doc)) @@ store
              /\ req' = [req EXCEPT ![p] =
                           [r EXCEPT !.pc = "b_loop", !.i = @ + 1,
                                     !.doc = EmptyDocument, !.count = NoCount,
                                     !.results.imported = @ + 1]]
  /\ UNCHANGED nextKey

\* after the loop: results.errors = errors and the 200 response
BulkUploadReport(p) ==
  /\ req[p].pc = "b_loop"
  /\ req[p].i = Len(req[p].rows)
  /\ req' = [req EXCEPT ![p] =
               [req[p] EXCEPT !.pc = "done", !.resp = Json(200),
                              !.results.errors = req[p].errors,
                              !.errors = <<>>]]
  /\ UNCHANGED <<store, nextKey>>

\* sequences over S of length at most n
RECURSIVE SeqsUpTo(_, _)
SeqsUpTo(S, n) ==
  IF n = 0 THEN {<<>>}
  ELSE LET shorter == SeqsUpTo(S, n - 1)
       IN  shorter \cup {Append(q, x) : q \in shorter, x \in S}

GoodRow(domain) ==
  [ title |-> Text(0, 5), abstract |-> Text(0, 20), domain |-> Token(0, domain),
    category |-> Token(0, "Major"), difficulty |-> Token(0, "Beginner"),
    duration |-> Text(0, 8), status |-> Token(0, ""), featured |-> <<>> ]

RowPool ==
  { GoodRow("AI & Machine Learning"),
    [GoodRow("AI & Machine Learning") EXCEPT
       !.domain = Token(1, "AI & Machine Learning"),
       !.featured = <<"T","r","u","e">>],
    [GoodRow("AI & Machine Learning") EXCEPT
       !.title = Text(2, 0), !.category = Token(0, "Huge")],
    [GoodRow("AI & Machine Learning") EXCEPT !.status = Token(0, "Published")] }

Uploads ==
  {[file |-> TRUE, parses |-> TRUE, rows |-> q] : q \in SeqsUpTo(RowPool, MaxRows)}
    \cup {[file |-> FALSE, parses |-> FALSE, rows |-> <<>>],
          [file |-> TRUE, parses |-> FALSE, rows |-> <<>>]}

(***************************************************************************)
(* Spec: every handler, on two request slots.                              *)
(***************************************************************************)
\* a step of a problem-statement handler that no history column follows;
\* the Lead collection is out of these handlers' reach
NoHistory == UNCHANGED <<allocLog, run, created, retry, imports, asked, hits, leads, calc, gen>>

SpecUsers == {"admin1"}

SpecBodies ==
  { BaseBody("AI & Machine Learning"),
    ("id" :> <<"A","I","0","0","7">>) @@ BaseBody("AI & Machine Learning") }

SpecUpdates == { [id |-> <<"A","I","M","0","0","1">>], [id |-> <<>>] }

SpecStatuses == {"Active"}

SpecUploads ==
  {[file |-> TRUE, parses |-> TRUE, rows |-> <<GoodRow("AI & Machine Learning")>>]}

Keys == KeysUpTo(MaxKeys)

Next ==
  \E p \in Procs :
    \/ \E u \in SpecUsers, b \in SpecBodies :
         CreateProblemBegin(p, u, b) /\ KeysLeft(1, MaxKeys) /\ NoHistory
    \/ CreateProblemInsert(p) /\ NoHistory
    \/ CreateProblemRespond(p) /\ NoHistory
    \/ \E u \in SpecUsers, k \in Keys, b \in SpecUpdates :
         UpdateProblemFind(p, u, k, b) /\ NoHistory
    \/ UpdateProblemWrite(p) /\ NoHistory
    \/ \E u \in SpecUsers, k \in Keys, st \in SpecStatuses :
         UpdateProblemStatusFind(p, u, k, st) /\ NoHistory
    \/ \E u \in SpecUsers, k \in Keys : ToggleFeaturedFind(p, u, k) /\ NoHistory
    \/ DocSaveCount(p) /\ NoHistory
    \/ DocSaveWrite(p) /\ NoHistory
    \/ \E u \in SpecUsers, k \in Keys : DeleteProblemFind(p, u, k) /\ NoHistory
    \/ DeleteProblemWrite(p) /\ NoHistory
    \/ \E u \in SpecUsers, f \in SpecUploads :
         /\ BulkUploadBegin(p, u, f)
         /\ KeysLeft(Len(f.rows), MaxKeys)
         /\ NoHistory
    \/ BulkUploadRow(p) /\ NoHistory
    \/ BulkUploadInsert(p) /\ NoHistory
    \/ BulkUploadReport(p) /\ NoHistory

Spec == Init /\ [][Next]_vars

(***************************************************************************)
(* SpecCreate: the two writers of new documents, createProblem and         *)
(* bulkUploadProblems, on two request slots.  The history column `created` *)
(* records, per inserted _id, the count and the id the pre-save hook       *)
(* derived and what became of the insert.                                  *)
(***************************************************************************)
CreateUsers == {"faculty1"}

\* the _id of the document a slot is about to insert
InsertKey(r) == IF r.op = "bulkUploadProblems" THEN r.key + r.i ELSE r.key

\* what the caller of a failed insert is told: createProblem hands the error
\* to next(); the bulk loop counts the row as failed under a 'database' entry
Surfaced(old, new) ==
  IF old.op = "bulkUploadProblems"
  THEN /\ new.results.failed = old.results.failed + 1
       /\ Len(new.errors) = Len(old.errors) + 1
       /\ new.errors[Len(new.errors)].field = "database"
       /\ new.errors[Len(new.errors)].row = old.i + 2
  ELSE new.pc = "done" /\ new.resp.via = "next"

\* the pre-save hook derived an id from a count: remember both
LogDerived(p) ==
  created' =
    LET r == req'[p]
    IN  IF r.pc \in {"c_insert", "b_insert"} /\ r.count # NoCount
        THEN (InsertKey(r) :> [domain |-> r.doc.domain, count |-> r.count,
                               id |-> r.doc.id, outcome |-> "pending"]) @@ created
        ELSE created

\* the insert answered: the document is in the collection, or its caller
\* was told, or neither
LogOutcome(p) ==
  created' =
    LET k == InsertKey(req[p])
    IN  IF k \in DOMAIN created
        THEN [created EXCEPT ![k].outcome =
                IF k \in DOMAIN store' THEN "persisted"
                ELSE IF Surfaced(req[p], req'[p]) THEN "error"
                ELSE "dropped"]
        ELSE created

NextCreate ==
  \E p \in Procs :
    \/ \E u \in CreateUsers, b \in SpecBodies :
         /\ CreateProblemBegin(p, u, b)
         /\ KeysLeft(1, MaxCreateKeys)
         /\ LogDerived(p)
         /\ UNCHANGED <<allocLog, run, retry, imports, asked, hits, leads, calc, gen>>
    \/ CreateProblemInsert(p) /\ LogOutcome(p) /\ UNCHANGED <<allocLog, run, retry, imports, asked, hits, leads, calc, gen>>
    \/ CreateProblemRespond(p) /\ NoHistory
    \/ \E u \in CreateUsers, f \in Uploads :
         /\ BulkUploadBegin(p, u, f)
         /\ KeysLeft(Len(f.rows), MaxCreateKeys)
         /\ NoHistory
    \/ BulkUploadRow(p) /\ LogDerived(p) /\ UNCHANGED <<allocLog, run, retry, imports, asked, hits, leads, calc, gen>>
    \/ BulkUploadInsert(p) /\ LogOutcome(p) /\ UNCHANGED <<allocLog, run, retry, imports, asked, hits, leads, calc, gen>>
    \/ BulkUploadReport(p) /\ NoHistory

SpecCreate == Init /\ [][NextCreate]_vars

(***************************************************************************)
(* SpecSeq: creations, updates and deletions, one request at a time.  The  *)
(* history columns record what the allocator assigned: allocLog, per       *)
(* domain, the ids it assigned that reached the collection, in order; run, *)
(* the outcomes of the createProblem calls without an id that followed one *)
(* another, and nothing else, since their domain was empty.                *)
(***************************************************************************)
SeqProcs == {"r1"}

SeqUsers == {"admin1"}

SeqKeys == KeysUpTo(MaxSeqKeys)

\* the allocator's id reached the collection in this step
LogAlloc(p, persisted) ==
  allocLog' =
    IF req[p].count # NoCount /\ persisted
    THEN [allocLog EXCEPT ![req[p].doc.domain] = Append(@, req[p].doc.id)]
    ELSE allocLog

RunBegin(p) ==
  run' =
    LET r == req'[p]
    IN  IF r.pc = "c_insert" /\ r.count # NoCount
        THEN IF run.domain = r.doc.domain THEN run
             ELSE IF r.count = 0 THEN [domain |-> r.doc.domain, outs |-> <<>>]
             ELSE NoRun
        ELSE NoRun

RunInsert(p) ==
  run' =
    IF run.domain = req[p].doc.domain /\ req[p].count # NoCount
    THEN [run EXCEPT !.outs = Append(@, [ok |-> req'[p].pc = "c_populate",
                                         id |-> req[p].doc.id])]
    ELSE NoRun

RunEnds == run' = NoRun

NextSeq ==
  \E p \in SeqProcs :
    \/ \E u \in SeqUsers, b \in CreateBodies :
         /\ CreateProblemBegin(p, u, b)
         /\ KeysLeft(1, MaxSeqKeys)
         /\ RunBegin(p)
         /\ UNCHANGED <<allocLog, created, retry, imports, asked, hits, leads, calc, gen>>
    \/ /\ CreateProblemInsert(p)
       /\ LogAlloc(p, req'[p].pc = "c_populate")
       /\ RunInsert(p)
       /\ UNCHANGED <<created, retry, imports, asked, hits, leads, calc, gen>>
    \/ CreateProblemRespond(p) /\ NoHistory
    \/ \E u \in SeqUsers, k \in SeqKeys, b \in UpdateBodies :
         UpdateProblemFind(p, u, k, b) /\ RunEnds /\ UNCHANGED <<allocLog, created, retry, imports, asked, hits, leads, calc, gen>>
    \/ UpdateProblemWrite(p) /\ RunEnds /\ UNCHANGED <<allocLog, created, retry, imports, asked, hits, leads, calc, gen>>
    \/ \E u \in SeqUsers, k \in SeqKeys :
         DeleteProblemFind(p, u, k) /\ RunEnds /\ UNCHANGED <<allocLog, created, retry, imports, asked, hits, leads, calc, gen>>
    \/ DeleteProblemWrite(p) /\ RunEnds /\ UNCHANGED <<allocLog, created, retry, imports, asked, hits, leads, calc, gen>>

SpecSeq == Init /\ [][NextSeq]_vars

(***************************************************************************)
(* SpecRetry: createProblem on two request slots, in a collection that     *)
(* only creations fill.  The history column `retry` follows a creation     *)
(* without id that lost a race (another creation derived its id from the   *)
(* same count of the same domain and is stored) and is submitted again     *)
(* with no other request in flight and none begun in between.              *)
(***************************************************************************)
RetryBodies ==
  { BaseBody("AI & Machine Learning"),
    ("id" :> <<"A","I","M","0","0","2">>) @@ BaseBody("IoT & Embedded Systems") }

\* the insert slot p is about to make lost a race: a creation that derived
\* the same id from the same count is in the collection
RacedAndLost(p) ==
  /\ req[p].count # NoCount
  /\ \E j \in DOMAIN created \ {req[p].key} :
       /\ created[j].domain = req[p].doc.domain
       /\ created[j].count = req[p].count
       /\ created[j].outcome = "persisted"
       /\ j \in DOMAIN store
       /\ store[j].id = req[p].doc.id

RetryBegin(p) ==
  retry' =
    LET r == req'[p]
    IN  IF retry.phase = "armed"
        THEN IF /\ r.pc = "c_insert"
                /\ r.count # NoCount
                /\ r.doc.domain = retry.domain
                /\ \A q \in Procs \ {p} : Free(q)
             THEN [phase |-> "retrying", domain |-> retry.domain, key |-> r.key,
                   count |-> r.count, id |-> r.doc.id]
             ELSE NoRetry
        ELSE IF retry.phase = "retrying" THEN NoRetry
        ELSE retry

RetryInsert(p) ==
  retry' =
    IF retry.phase = "retrying" /\ req[p].key = retry.key
    THEN [retry EXCEPT !.phase = IF req[p].key \in DOMAIN store'
                                 THEN "persisted" ELSE "rejected"]
    ELSE IF req[p].key \notin DOMAIN store' /\ RacedAndLost(p)
    THEN [NoRetry EXCEPT !.phase = "armed", !.domain = req[p].doc.domain]
    ELSE IF retry.phase \in {"armed", "retrying"} THEN NoRetry
    ELSE retry

NextRetry ==
  \E p \in Procs :
    \/ \E u \in CreateUsers, b \in RetryBodies :
         /\ CreateProblemBegin(p, u, b)
         /\ KeysLeft(1, MaxRetryKeys)
         /\ LogDerived(p)
         /\ RetryBegin(p)
         /\ UNCHANGED <<allocLog, run, imports, asked, hits, leads, calc, gen>>
    \/ /\ CreateProblemInsert(p)
       /\ LogOutcome(p)
       /\ RetryInsert(p)
       /\ UNCHANGED <<allocLog, run, imports, asked, hits, leads, calc, gen>>
    \/ CreateProblemRespond(p) /\ NoHistory

SpecRetry == Init /\ [][NextRetry]_vars

(***************************************************************************)
(* downloadTemplate and the csv() stream of bulkUploadProblems: the text   *)
(* the template handler sends, and the reading of a text into the rows the *)
(* loop works on.  Lines end at line feeds outside quotes, cells at commas *)
(* outside quotes; a quoted cell loses its quotes and has its doubled      *)
(* quotes undone; the cells of the first line name the columns.            *)
(***************************************************************************)
TemplateHeader ==
       "title,abstract,domain,category,difficulty,duration,technologies,"
    \o "deliverables,prerequisites,learningOutcomes,tags,status,featured"

TemplateRow1 ==
       "\"AI-Powered Personal Finance Manager\",\"Develop an intelligent pe"
    \o "rsonal finance management system that uses machine learning algo"
    \o "rithms to analyze user spending patterns and provide personalize"
    \o "d financial advice. The system will include features like budget"
    \o " tracking, expense categorization, investment recommendations, a"
    \o "nd financial goal setting.\",\"AI & Machine Learning\",\"Major\",\"Adv"
    \o "anced\",\"12-16 weeks\",\"Python;TensorFlow;React;Node.js;MongoDB\",\""
    \o "Complete source code;User interface;Documentation;Deployment gui"
    \o "de\",\"Strong programming skills;Basic ML knowledge;Web developmen"
    \o "t experience\",\"Implement ML algorithms;Design responsive web app"
    \o "lications;Work with financial APIs\",\"Machine Learning;Finance;We"
    \o "b Development;Data Analysis\",\"Draft\",\"false\""

TemplateRow2 ==
       "\"IoT Smart Home System\",\"Create a comprehensive IoT-based smart "
    \o "home automation system that allows users to control various home"
    \o " appliances and monitor environmental conditions remotely. The s"
    \o "ystem will include sensors for temperature, humidity, motion det"
    \o "ection, and smart switches for controlling lights and fans.\",\"Io"
    \o "T & Embedded Systems\",\"Major\",\"Intermediate\",\"10-14 weeks\",\"Ardu"
    \o "ino;Raspberry Pi;Python;MQTT;React Native\",\"Hardware prototype;M"
    \o "obile app;Documentation;Circuit diagrams\",\"Electronics basics;Pr"
    \o "ogramming skills;IoT concepts\",\"Work with IoT devices;Develop mo"
    \o "bile applications;Understand sensor integration\",\"IoT;Smart Home"
    \o ";Automation;Mobile Development\",\"Draft\",\"false\""

TemplateRow3 ==
       "\"Blockchain-Based Supply Chain Tracking\",\"Implement a blockchain"
    \o " solution for tracking products throughout the supply chain, ens"
    \o "uring transparency and authenticity. The system will allow consu"
    \o "mers to verify product origins and track the journey from manufa"
    \o "cturer to retailer.\",\"Cybersecurity & Blockchain\",\"Major\",\"Advan"
    \o "ced\",\"14-18 weeks\",\"Solidity;Web3.js;React;Node.js;IPFS\",\"Smart "
    \o "contracts;Web application;Documentation;Test cases\",\"Blockchain "
    \o "fundamentals;Smart contract development;Web3 technologies\",\"Deve"
    \o "lop smart contracts;Build decentralized applications;Understand "
    \o "supply chain processes\",\"Blockchain;Supply Chain;Web3;Smart Cont"
    \o "racts\",\"Draft\",\"false\""

TemplateRow4 ==
       "\"Cloud-Based E-Learning Platform\",\"Build a scalable e-learning p"
    \o "latform using cloud technologies that supports video streaming, "
    \o "real-time collaboration, and progress tracking. The platform wil"
    \o "l include features like course creation, student enrollment, ass"
    \o "ignment submission, and performance analytics.\",\"Cloud Computing"
    \o "\",\"Major\",\"Intermediate\",\"12-16 weeks\",\"AWS;React;Node.js;MongoD"
    \o "B;Docker\",\"Cloud deployment;Web application;API documentation;Da"
    \o "tabase schema\",\"Cloud computing basics;Web development;Database "
    \o "design\",\"Deploy applications to cloud;Implement real-time featur"
    \o "es;Design scalable architectures\",\"Cloud Computing;E-Learning;Re"
    \o "al-time Applications;Scalability\",\"Draft\",\"false\""

TemplateRow5 ==
       "\"Cybersecurity Threat Detection System\",\"Develop an AI-powered c"
    \o "ybersecurity system that monitors network traffic and detects po"
    \o "tential threats in real-time. The system will use machine learni"
    \o "ng algorithms to identify suspicious patterns and alert administ"
    \o "rators about potential security breaches.\",\"Cybersecurity & Bloc"
    \o "kchain\",\"Major\",\"Advanced\",\"16-20 weeks\",\"Python;TensorFlow;Kafk"
    \o "a;Elasticsearch;React\",\"Threat detection engine;Dashboard;Docume"
    \o "ntation;Test datasets\",\"Cybersecurity knowledge;Machine learning"
    \o ";Network protocols\",\"Implement ML-based threat detection;Build m"
    \o "onitoring dashboards;Understand network security\",\"Cybersecurity"
    \o ";Machine Learning;Network Security;Real-time Processing\",\"Draft\""
    \o ",\"false\""

\* const csvContent = `...`: the header line and the five example lines
csvContent ==
  TemplateHeader \o "\n" \o TemplateRow1 \o "\n" \o TemplateRow2 \o "\n"
    \o TemplateRow3 \o "\n" \o TemplateRow4 \o "\n" \o TemplateRow5

CharAt(s, i) == SubSeq(s, i, i)

Positions(s, c) == {i \in 1..Len(s) : CharAt(s, i) = c}

\* the places of c in s that no quoted cell encloses
Unquoted(s, c) ==
  LET quotes == Positions(s, "\"")
  IN  {i \in Positions(s, c) : Cardinality({q \in quotes : q < i}) % 2 = 0}

\* the pieces of s, from position `from` on, between the places in seps
RECURSIVE SplitFrom(_, _, _)
SplitFrom(s, from, seps) ==
  LET rest == {n \in seps : n >= from}
  IN  IF rest = {}
      THEN <<SubSeq(s, from, Len(s))>>
      ELSE LET n == CHOOSE m \in rest : \A k \in rest : m <= k
           IN  <<SubSeq(s, from, n - 1)>> \o SplitFrom(s, n + 1, seps)

\* "" inside a quoted cell stands for one quote
RECURSIVE Unescape(_)
Unescape(s) ==
  IF Positions(s, "\"") = {} THEN s
  ELSE IF Len(s) >= 2 /\ SubSeq(s, 1, 2) = "\"\""
  THEN "\"" \o Unescape(SubSeq(s, 3, Len(s)))
  ELSE CharAt(s, 1) \o Unescape(SubSeq(s, 2, Len(s)))

ParseCell(s) ==
  IF Len(s) >= 2 /\ CharAt(s, 1) = "\"" /\ CharAt(s, Len(s)) = "\""
  THEN Unescape(SubSeq(s, 2, Len(s) - 1))
  ELSE s

ParseLine(s) ==
  LET cells == SplitFrom(s, 1, Unquoted(s, ","))
  IN  [i \in DOMAIN cells |-> ParseCell(cells[i])]

\* the 'data' events: one object per line after the first, keyed by headers
CsvRows(text) ==
  LET lines   == SplitFrom(text, 1, Unquoted(text, "\n"))
      headers == ParseLine(lines[1])
  IN  [i \in 1..(Len(lines) - 1) |->
         LET cells == ParseLine(lines[i + 1])
             named == {j \in DOMAIN headers : j <= Len(cells)}
         IN  [h \in {headers[j] : j \in named} |->
                cells[CHOOSE j \in named :
                        /\ headers[j] = h
                        /\ \A k \in named : headers[k] = h => k <= j]]]

\* row.<name>: a column the file does not have reads as no text
Column(row, name) == IF name \in DOMAIN row THEN row[name] ELSE ""

Blank(c) == c \in {" ", "\t", "\n", "\r"}

\* String.prototype.trim
RECURSIVE StringTrim(_)
StringTrim(s) ==
  IF Len(s) > 0 /\ Blank(CharAt(s, 1)) THEN StringTrim(SubSeq(s, 2, Len(s)))
  ELSE IF Len(s) > 0 /\ Blank(CharAt(s, Len(s)))
  THEN StringTrim(SubSeq(s, 1, Len(s) - 1))
  ELSE s

\* a cell as the loop measures it: blanks around it, size of what is left
AsText(s) == Text(Len(s) - Len(StringTrim(s)), Len(StringTrim(s)))

\* a cell as the loop compares it: blanks around it, what is left
AsToken(s) == Token(Len(s) - Len(StringTrim(s)), StringTrim(s))

Chars(s) == [i \in 1..Len(s) |-> CharAt(s, i)]

\* the columns of a parsed row that the loop reads
RowOf(row) ==
  [ title      |-> AsText(Column(row, "title")),
    abstract   |-> AsText(Column(row, "abstract")),
    domain     |-> AsToken(Column(row, "domain")),
    category   |-> AsToken(Column(row, "category")),
    difficulty |-> AsToken(Column(row, "difficulty")),
    duration   |-> AsText(Column(row, "duration")),
    status     |-> AsToken(Column(row, "status")),
    featured   |-> Chars(Column(row, "featured")) ]

\* the rows the loop gets when the template is uploaded as it was sent
TemplateRows ==
  LET rows == CsvRows(csvContent)
  IN  [i \in DOMAIN rows |-> RowOf(rows[i])]

TemplateUploads == {[file |-> TRUE, parses |-> TRUE, rows |-> TemplateRows]}

(***************************************************************************)
(* SpecTemplate: createProblem and the import of the template, one request *)
(* at a time.  The history column `imports` holds the records of the       *)
(* collection as each import left it, for the imports that followed one    *)
(* another with no other request in between.                               *)
(***************************************************************************)
TemplateBodies ==
  { BaseBody("AI & Machine Learning"),
    ("id" :> <<"A","I","M","0","0","1">>) @@ BaseBody("IoT & Embedded Systems") }

Records == {store[k] : k \in DOMAIN store}

LogImport(p) == imports' = Append(imports, Records)

NextTemplate ==
  \E p \in SeqProcs :
    \/ \E u \in CreateUsers, b \in TemplateBodies :
         /\ CreateProblemBegin(p, u, b)
         /\ KeysLeft(1, MaxTemplateKeys)
         /\ imports' = <<>>
         /\ UNCHANGED <<allocLog, run, created, retry, asked, hits, leads, calc, gen>>
    \/ CreateProblemInsert(p) /\ NoHistory
    \/ CreateProblemRespond(p) /\ NoHistory
    \/ \E u \in CreateUsers, f \in TemplateUploads :
         /\ BulkUploadBegin(p, u, f)
         /\ KeysLeft(Len(f.rows), MaxTemplateKeys)
         /\ NoHistory
    \/ BulkUploadRow(p) /\ NoHistory
    \/ BulkUploadInsert(p) /\ NoHistory
    \/ /\ BulkUploadReport(p)
       /\ LogImport(p)
       /\ UNCHANGED <<allocLog, run, created, retry, asked, hits, leads, calc, gen>>

SpecTemplate == Init /\ [][NextTemplate]_vars

(***************************************************************************)
(* SpecRow: the loop of bulkUploadProblems over a file of one data row,    *)
(* for every combination of the column values below; the file check and    *)
(* the parse are behind it.                                                *)
(***************************************************************************)
TextInputs == {Text(0, 5), Text(0, 0), Text(2, 0)}

RowInputs ==
  [ title      : TextInputs,
    abstract   : {Text(0, 20), Text(0, 0)},
    domain     : {Token(0, "Cloud Computing"), Token(1, "Cloud Computing"),
                  Token(0, ""), Token(1, ""), Token(0, "Robotics")},
    category   : {Token(0, "Minor"), Token(0, ""), Token(2, ""), Token(0, "Huge")},
    difficulty : {Token(0, "Beginner"), Token(0, ""), Token(0, "Expert")},
    duration   : {Text(0, 8), Text(1, 0)},
    status     : {Token(0, ""), Token(0, "Published")},
    featured   : {<<>>} ]

InitRow ==
  /\ store = <<>>
  /\ nextKey = 2
  /\ \E row \in RowInputs :
       req = [p \in Procs |->
                IF p = "r1"
                THEN [IdleReq EXCEPT !.pc = "b_loop", !.op = "bulkUploadProblems",
                                     !.user = "faculty1", !.key = 1,
                                     !.upload = [file |-> TRUE, parses |-> TRUE],
                                     !.rows = <<row>>]
                ELSE IdleReq]
  /\ allocLog = [d \in ValidDomains |-> <<>>]
  /\ run = NoRun
  /\ created = <<>>
  /\ retry = NoRetry
  /\ imports = <<>>
  /\ asked = NoAsk
  /\ hits = <<>>
  /\ leads = <<>>
  /\ calc = NoCalc
  /\ gen = NoGen

NextRow ==
  \/ BulkUploadRow("r1") /\ NoHistory
  \/ BulkUploadInsert("r1") /\ NoHistory
  \/ BulkUploadReport("r1") /\ NoHistory

SpecRow == InitRow /\ [][NextRow]_vars


(***************************************************************************)
(* SpecOwner: createProblem and the bulk import on two request slots, by   *)
(* callers of both roles, with request bodies and CSV rows that carry a    *)
(* createdBy of their own.                                                 *)
(***************************************************************************)
OwnerBodies ==
  { BaseBody("AI & Machine Learning"),
    ("createdBy" :> "admin1") @@ BaseBody("AI & Machine Learning"),
    ("createdBy" :> "nobody") @@ BaseBody("IoT & Embedded Systems") }

\* a row of a file that has a createdBy column
OwnerRow(domain, owner) == ("createdBy" :> Token(0, owner)) @@ GoodRow(domain)

OwnerUploads ==
  { [file |-> TRUE, parses |-> TRUE,
     rows |-> <<OwnerRow("Cloud Computing", "admin1")>>],
    [file |-> TRUE, parses |-> TRUE,
     rows |-> <<GoodRow("Cloud Computing")>>] }

NextOwner ==
  \E p \in Procs :
    \/ \E u \in Users, b \in OwnerBodies :
         CreateProblemBegin(p, u, b) /\ KeysLeft(1, MaxOwnerKeys) /\ NoHistory
    \/ CreateProblemInsert(p) /\ NoHistory
    \/ CreateProblemRespond(p) /\ NoHistory
    \/ \E u \in Users, f \in OwnerUploads :
         /\ BulkUploadBegin(p, u, f)
         /\ KeysLeft(Len(f.rows), MaxOwnerKeys)
         /\ NoHistory
    \/ BulkUploadRow(p) /\ NoHistory
    \/ BulkUploadInsert(p) /\ NoHistory
    \/ BulkUploadReport(p) /\ NoHistory

SpecOwner == Init /\ [][NextOwner]_vars


(***************************************************************************)
(* SpecManual: one createProblem call, over request bodies on both sides   *)
(* of every limit of the chain of router.post('/') and bodies that lack a  *)
(* field.  The call is drawn with the initial state and kept in `asked`.   *)
(***************************************************************************)
ManualFull ==
  [ title        : {Text(0, 4), Text(2, 4), Text(1, 5), Text(0, 200), Text(0, 201)},
    abstract     : {Text(0, 49), Text(1, 50), Text(0, 5000), Text(0, 5001)},
    domain       : {"AI & Machine Learning", "Robotics"},
    category     : {"Major", "Huge"},
    difficulty   : {"Beginner", "Expert"},
    duration     : {Text(1, 0), Text(0, 1), Text(0, 50), Text(0, 51)},
    technologies : {0, 1},
    deliverables : {0, 2} ]

\* a body without the field f
Without(b, f) == [g \in DOMAIN b \ {f} |-> b[g]]

ManualBodies ==
  ManualFull
    \cup {Without(BaseBody("AI & Machine Learning"), f) :
            f \in DOMAIN BaseBody("AI & Machine Learning")}

\* a collection with one record of an earlier creation
OneRecord ==
  (1 :> Stored(PreSave(NewDocument(ProblemData(BaseBody("AI & Machine Learning"),
                                             "faculty1")), 0)))

\* the call to come is drawn here; the collection is empty or holds a record
InitManual ==
  /\ \E old \in {<<>>, OneRecord} :
       /\ store = old
       /\ nextKey = Cardinality(DOMAIN old) + 1
  /\ req = [p \in Procs |-> IdleReq]
  /\ asked \in {[op |-> "createProblem", user |-> u, input |-> b] :
                  u \in Users, b \in ManualBodies}
  /\ allocLog = [d \in ValidDomains |-> <<>>]
  /\ run = NoRun
  /\ created = <<>>
  /\ retry = NoRetry
  /\ imports = <<>>
  /\ hits = <<>>
  /\ leads = <<>>
  /\ calc = NoCalc
  /\ gen = NoGen

NextManual ==
  \E p \in SeqProcs :
    \/ /\ req[p].pc = "idle"
       /\ CreateProblemBegin(p, asked.user, asked.input)
       /\ KeysLeft(1, MaxManualKeys)
       /\ NoHistory
    \/ CreateProblemInsert(p) /\ NoHistory
    \/ CreateProblemRespond(p) /\ NoHistory

SpecManual == InitManual /\ [][NextManual]_vars


(***************************************************************************)
(* router.post('/bulk-upload', protect, authorize('admin', 'faculty'),     *)
(* upload.single('file'), bulkUploadProblems): the middleware in front of  *)
(* the bulk import.  A token is what the Authorization header carries: no  *)
(* token, one jwt.verify rejects, or a verified one naming a user id.      *)
(***************************************************************************)
NoToken == [kind |-> "none", id |-> ""]

BadToken == [kind |-> "invalid", id |-> ""]

GoodToken(id) == [kind |-> "verified", id |-> id]

\* protect: the user attached to the request, "" when it answers 401
Protect(token) ==
  IF token.kind = "verified" /\ token.id \in DOMAIN Role THEN token.id ELSE ""

\* limits: { fileSize: 5 * 1024 * 1024 }
FileSizeLimit == 5 * 1024 * 1024

EndsWith(s, suffix) ==
  /\ Len(s) >= Len(suffix)
  /\ SubSeq(s, Len(s) - Len(suffix) + 1, Len(s)) = suffix

\* fault: the filter lets every file through
FileFilterAny(file) == TRUE

\* fileFilter of the multer instance
FileFilter(file) ==
  file.mimetype = "text/csv" \/ EndsWith(file.originalname, ".csv")

\* the whole route: protect, authorize, multer, then the handler
BulkUploadRoute(p, token, upload) ==
  LET user == Protect(token)
  IN  IF user = ""
      THEN /\ Free(p)
           /\ req' = [req EXCEPT ![p] =
                        Reply(p, "bulkUploadProblems", user, NextError("401"))]
           /\ UNCHANGED <<store, nextKey>>
      ELSE IF ~Authorized(user, {"admin", "faculty"})
      THEN /\ Free(p)
           /\ req' = [req EXCEPT ![p] =
                        Reply(p, "bulkUploadProblems", user, NextError("403"))]
           /\ UNCHANGED <<store, nextKey>>
      ELSE IF upload.file /\ ~FileFilter(upload)
      THEN /\ Free(p)
           /\ req' = [req EXCEPT ![p] =
                        Reply(p, "bulkUploadProblems", user,
                              NextError("Only CSV files are allowed"))]
           /\ UNCHANGED <<store, nextKey>>
      ELSE IF upload.file /\ upload.size > FileSizeLimit
      THEN /\ Free(p)
           /\ req' = [req EXCEPT ![p] =
                        Reply(p, "bulkUploadProblems", user,
                              NextError("LIMIT_FILE_SIZE"))]
           /\ UNCHANGED <<store, nextKey>>
      ELSE BulkUploadBegin(p, user, upload)

(***************************************************************************)
(* SpecGate: POST /bulk-upload behind its middleware, one request at a     *)
(* time, with every kind of token and files of several names, declared     *)
(* types and sizes.  `asked` keeps the request as it arrived.              *)
(***************************************************************************)
GateTokens ==
  { NoToken, BadToken, GoodToken("admin1"), GoodToken("faculty1"),
    GoodToken("student1"), GoodToken("ghost1") }

\* a file as multer sees it
GateFile(name, mimetype, size, parses, rows) ==
  [file |-> TRUE, parses |-> parses, rows |-> rows,
   originalname |-> name, mimetype |-> mimetype, size |-> size]

GateUploads ==
  { [file |-> FALSE, parses |-> FALSE, rows |-> <<>>,
     originalname |-> "", mimetype |-> "", size |-> 0] }
    \cup { GateFile(n, m, 2048, TRUE, <<GoodRow("AI & Machine Learning")>>) :
             n \in {"problems.csv", "problems.CSV", "notes.txt"},
             m \in {"text/csv", "application/vnd.ms-excel"} }
    \cup { GateFile("problems.csv", "text/csv", 6 * 1024 * 1024, TRUE,
                    <<GoodRow("AI & Machine Learning")>>),
           GateFile("problems.csv", "text/csv", 2048, FALSE, <<>>) }

NextGate ==
  \E p \in SeqProcs :
    \/ \E t \in GateTokens, f \in GateUploads :
         /\ BulkUploadRoute(p, t, f)
         /\ KeysLeft(Len(f.rows), MaxGateKeys)
         /\ asked' = [op |-> "bulkUploadProblems", user |-> t, input |-> f]
         /\ UNCHANGED <<allocLog, run, created, retry, imports, hits, leads, calc, gen>>
    \/ BulkUploadRow(p) /\ NoHistory
    \/ BulkUploadInsert(p) /\ NoHistory
    \/ BulkUploadReport(p) /\ NoHistory

SpecGate == Init /\ [][NextGate]_vars


(***************************************************************************)
(* parseArrayField, and SpecList: the function applied to a list column    *)
(* drawn with the initial state, present with a text or absent.            *)
(***************************************************************************)
\* s.split(sep), sep one character
Split(s, sep) == SplitFrom(s, 1, Positions(s, sep))

\* fault: the parts are not trimmed
parseArrayFieldNoTrim(field) ==
  IF field = "" \/ StringTrim(field) = ""
  THEN <<>>
  ELSE SelectSeq(Split(field, ";"), LAMBDA item : item # "")

\* (field) => { if (!field || field.trim() === '') return [];
\*   return field.split(';').map(item => item.trim()).filter(item => item !== '') }
parseArrayField(field) ==
  IF field = "" \/ StringTrim(field) = ""
  THEN <<>>
  ELSE LET parts == Split(field, ";")
       IN  SelectSeq([i \in DOMAIN parts |-> StringTrim(parts[i])],
                     LAMBDA item : item # "")

ListAlphabet == {"a", "b", " ", ";"}

RECURSIVE StringsUpTo(_)
StringsUpTo(n) ==
  IF n = 0 THEN {""}
  ELSE LET shorter == StringsUpTo(n - 1)
       IN  shorter \cup {s \o c : s \in shorter, c \in ListAlphabet}

ListTexts == StringsUpTo(MaxFieldLen) \cup {"Python;TensorFlow; React "}

\* rows with the technologies column and a row without it
ListRows ==
  {[title |-> "T", technologies |-> s] : s \in ListTexts} \cup {[title |-> "T"]}

InitList ==
  /\ store = <<>>
  /\ nextKey = 1
  /\ req = [p \in Procs |-> IdleReq]
  /\ allocLog = [d \in ValidDomains |-> <<>>]
  /\ run = NoRun
  /\ created = <<>>
  /\ retry = NoRetry
  /\ imports = <<>>
  /\ asked = NoAsk
  /\ hits = <<>>
  /\ leads = <<>>
  /\ gen = NoGen
  /\ calc \in {[pc |-> "new", row |-> r, parsed |-> <<>>] : r \in ListRows}

\* technologies: parseArrayField(row.technologies || '')
RunParseArrayField ==
  /\ calc.pc = "new"
  /\ calc' = [calc EXCEPT !.pc = "parsed",
                          !.parsed = parseArrayField(Column(calc.row, "technologies"))]
  /\ UNCHANGED <<store, nextKey, req, allocLog, run, created, retry, imports,
                 asked, hits, leads, gen>>

NextList == RunParseArrayField

SpecList == InitList /\ [][NextList]_vars


(***************************************************************************)
(* SpecFeatured: the loop of bulkUploadProblems over a file of one data    *)
(* row, the first example of the template with its featured column         *)
(* rewritten or removed.  `asked` keeps the row as the parser delivered it.*)
(***************************************************************************)
\* the spellings of a word in upper and lower case
RECURSIVE Casings(_)
Casings(s) ==
  IF Len(s) = 0 THEN {""}
  ELSE {c \o rest : c \in {CharAt(s, 1), ToUpperChar(CharAt(s, 1))},
                    rest \in Casings(SubSeq(s, 2, Len(s)))}

FeaturedTexts ==
  Casings("true") \cup Casings("false") \cup Casings("tru") \cup Casings("yes")
    \cup {"", " ", " true", "true ", "TRUE ", "truee", "1", "t", "on"}

FeaturedRows ==
  LET example == CsvRows(csvContent)[1]
  IN  {[example EXCEPT !.featured = v] : v \in FeaturedTexts}
        \cup {Without(example, "featured")}

InitFeatured ==
  /\ store = <<>>
  /\ nextKey = 2
  /\ \E row \in FeaturedRows :
       /\ asked = [op |-> "bulkUploadProblems", user |-> "faculty1", input |-> row]
       /\ req = [p \in Procs |->
                   IF p = "r1"
                   THEN [IdleReq EXCEPT !.pc = "b_loop", !.op = "bulkUploadProblems",
                                        !.user = "faculty1", !.key = 1,
                                        !.upload = [file |-> TRUE, parses |-> TRUE],
                                        !.rows = <<RowOf(row)>>]
                   ELSE IdleReq]
  /\ allocLog = [d \in ValidDomains |-> <<>>]
  /\ run = NoRun
  /\ created = <<>>
  /\ retry = NoRetry
  /\ imports = <<>>
  /\ hits = <<>>
  /\ leads = <<>>
  /\ calc = NoCalc
  /\ gen = NoGen

NextFeatured ==
  \/ BulkUploadRow("r1") /\ NoHistory
  \/ BulkUploadInsert("r1") /\ NoHistory
  \/ BulkUploadReport("r1") /\ NoHistory

SpecFeatured == InitFeatured /\ [][NextFeatured]_vars


(***************************************************************************)
(* GET /api/v1/public/problems: getProblems.                               *)
(***************************************************************************)
\* the filter built from req.query: a parameter that is absent or empty
\* filters nothing
Filter(query) ==
  [f \in {g \in {"domain", "status"} : query[g] # ""} |-> query[f]]

Matches(doc, filter) == \A f \in DOMAIN filter : doc[f] = filter[f]

\* sort({ createdAt: -1 }): the keys of the records, newest first
RECURSIVE NewestFirst(_)
NewestFirst(keys) ==
  IF keys = {} THEN <<>>
  ELSE LET k == CHOOSE m \in keys : \A n \in keys : n <= m
       IN  <<k>> \o NewestFirst(keys \ {k})

\* find(filter).sort(...).skip(skip).limit(limit)
Find(filter, skip, limit) ==
  LET found == NewestFirst({k \in DOMAIN store : Matches(store[k], filter)})
      last  == IF skip + limit < Len(found) THEN skip + limit ELSE Len(found)
  IN  [i \in 1..(last - skip) |-> store[found[skip + i]]]

GetProblems(p, query) ==
  /\ Free(p)
  /\ LET skip == (query.page - 1) * query.limit
     IN  req' = [req EXCEPT ![p] =
                   [IdleReq EXCEPT !.pc = "done", !.op = "getProblems",
                                   !.resp = Json(200),
                                   !.data = Find(Filter(query), skip, query.limit)]]
  /\ UNCHANGED <<store, nextKey>>

(***************************************************************************)
(* SpecPublic: createProblem and the public list, one request at a time.   *)
(* Bodies leave the status to its default or set it; queries are drawn     *)
(* with and without each filter, on the first two pages.                   *)
(***************************************************************************)
PublicBodies ==
  { BaseBody("AI & Machine Learning"),
    ("status" :> "Active") @@ BaseBody("AI & Machine Learning"),
    ("status" :> "Archived") @@ BaseBody("Cloud Computing") }

PublicQueries ==
  [ domain : {"", "AI & Machine Learning"},
    status : {"", "Active", "Draft"},
    page   : {1, 2},
    limit  : {1, 10} ]

NextPublic ==
  \E p \in SeqProcs :
    \/ \E u \in CreateUsers, b \in PublicBodies :
         CreateProblemBegin(p, u, b) /\ KeysLeft(1, MaxPublicKeys) /\ NoHistory
    \/ CreateProblemInsert(p) /\ NoHistory
    \/ CreateProblemRespond(p) /\ NoHistory
    \/ \E q \in PublicQueries : GetProblems(p, q) /\ NoHistory

SpecPublic == Init /\ [][NextPublic]_vars


(***************************************************************************)
(* SpecDelete: createProblem without an id and deleteProblem, one request  *)
(* at a time: every id in the collection comes from the allocator.         *)
(***************************************************************************)
DeleteBodies == {BaseBody(d) : d \in DomainInputs}

NextDelete ==
  \E p \in SeqProcs :
    \/ \E u \in SeqUsers, b \in DeleteBodies :
         CreateProblemBegin(p, u, b) /\ KeysLeft(1, MaxDeleteKeys) /\ NoHistory
    \/ CreateProblemInsert(p) /\ NoHistory
    \/ CreateProblemRespond(p) /\ NoHistory
    \/ \E u \in SeqUsers, k \in KeysUpTo(MaxDeleteKeys) :
         DeleteProblemFind(p, u, k) /\ NoHistory
    \/ DeleteProblemWrite(p) /\ NoHistory

SpecDelete == Init /\ [][NextDelete]_vars


(***************************************************************************)
(* SpecEdit: createProblem by one faculty user, updateProblem and          *)
(* updateProblemStatus by the creator, another faculty user and an admin,  *)
(* one request at a time.  `asked` keeps the edit as it arrived.           *)
(***************************************************************************)
EditUsers == {"admin1", "faculty1", "faculty2"}

EditBodies == { [id |-> <<>>], [status |-> "Archived"] }

EditKeys == KeysUpTo(MaxEditKeys)

EditAsked(op, user, k, change) ==
  asked' = [op |-> op, user |-> user, input |-> [key |-> k, change |-> change]]

NextEdit ==
  \E p \in SeqProcs :
    \/ \E u \in CreateUsers, b \in SpecBodies :
         CreateProblemBegin(p, u, b) /\ KeysLeft(1, MaxEditKeys) /\ NoHistory
    \/ CreateProblemInsert(p) /\ NoHistory
    \/ CreateProblemRespond(p) /\ NoHistory
    \/ \E u \in EditUsers, k \in EditKeys, b \in EditBodies :
         /\ UpdateProblemFind(p, u, k, b)
         /\ EditAsked("updateProblem", u, k, b)
         /\ UNCHANGED <<allocLog, run, created, retry, imports, hits, leads, calc, gen>>
    \/ UpdateProblemWrite(p) /\ NoHistory
    \/ \E u \in EditUsers, k \in EditKeys, st \in StatusInputs :
         /\ UpdateProblemStatusFind(p, u, k, st)
         /\ EditAsked("updateProblemStatus", u, k, st)
         /\ UNCHANGED <<allocLog, run, created, retry, imports, hits, leads, calc, gen>>
    \/ DocSaveCount(p) /\ NoHistory
    \/ DocSaveWrite(p) /\ NoHistory

SpecEdit == Init /\ [][NextEdit]_vars


(***************************************************************************)
(* GET /custom/:id and GET /api/v1/public/problems/:id:                    *)
(* getProblemByCustomId.                                                   *)
(***************************************************************************)
\* findOne({ id: id.toUpperCase() }), the 404
GetProblemByCustomIdFind(p, id) ==
  /\ Free(p)
  /\ LET found == {k \in DOMAIN store : store[k].id = ToUpperCase(id)}
     IN  req' = [req EXCEPT ![p] =
                   IF found = {}
                   THEN [IdleReq EXCEPT !.pc = "done", !.op = "getProblemByCustomId",
                                        !.resp = Json(404)]
                   ELSE LET k == CHOOSE j \in found : TRUE
                        IN  [IdleReq EXCEPT
                               !.pc = "g_inc", !.op = "getProblemByCustomId",
                               !.key = k,
                               !.doc = Loaded(store[k], {"viewCount"})]]
  /\ UNCHANGED <<store, nextKey>>

\* fault: the count is written back from the document that was loaded
GetProblemByCustomIdIncStale(p) ==
  /\ req[p].pc = "g_inc"
  /\ store' = IF req[p].key \in DOMAIN store
              THEN [store EXCEPT ![req[p].key].viewCount = req[p].doc.viewCount + 1]
              ELSE store
  /\ req' = Finish(p, Json(200))
  /\ UNCHANGED nextKey

\* findByIdAndUpdate(problem._id, { $inc: { viewCount: 1 } }), then the 200
GetProblemByCustomIdInc(p) ==
  /\ req[p].pc = "g_inc"
  /\ store' = IF req[p].key \in DOMAIN store
              THEN [store EXCEPT ![req[p].key].viewCount = @ + 1]
              ELSE store
  /\ req' = Finish(p, Json(200))
  /\ UNCHANGED nextKey

(***************************************************************************)
(* SpecViews: lookups by custom id, updateProblemStatus and toggleFeatured *)
(* on two request slots, over a collection of two records: one with an id  *)
(* of the allocator, one whose id an update has emptied.  `hits` counts,   *)
(* per record, the lookups answered 200.                                   *)
(***************************************************************************)
ViewIds ==
  { <<"A","I","M","0","0","1">>, <<"a","i","m","0","0","1">>,
    <<"A","I","M","0","0","9">> }

TwoRecords ==
  OneRecord @@ (2 :> [OneRecord[1] EXCEPT !.id = <<>>])

InitViews ==
  /\ store = TwoRecords
  /\ nextKey = 3
  /\ req = [p \in Procs |-> IdleReq]
  /\ allocLog = [d \in ValidDomains |-> <<>>]
  /\ run = NoRun
  /\ created = <<>>
  /\ retry = NoRetry
  /\ imports = <<>>
  /\ asked = NoAsk
  /\ hits = [k \in DOMAIN TwoRecords |-> 0]
  /\ leads = <<>>
  /\ calc = NoCalc
  /\ gen = NoGen

\* lookups answered 200 so far, and lookups on their way to it
Lookups ==
  hits[1] + hits[2] + Cardinality({p \in Procs : req[p].pc = "g_inc"})

LogHit(p) ==
  hits' = IF req'[p].resp = Json(200)
          THEN [hits EXCEPT ![req[p].key] = @ + 1]
          ELSE hits

NextViews ==
  \E p \in Procs :
    \/ \E id \in ViewIds :
         /\ Lookups < MaxViews
         /\ GetProblemByCustomIdFind(p, id)
         /\ NoHistory
    \/ /\ GetProblemByCustomIdInc(p)
       /\ LogHit(p)
       /\ UNCHANGED <<allocLog, run, created, retry, imports, asked, leads, calc, gen>>
    \/ \E k \in DOMAIN TwoRecords, st \in {"Active", "Archived"} :
         UpdateProblemStatusFind(p, "admin1", k, st) /\ NoHistory
    \/ \E k \in DOMAIN TwoRecords :
         ToggleFeaturedFind(p, "admin1", k) /\ NoHistory
    \/ DocSaveCount(p) /\ NoHistory
    \/ DocSaveWrite(p) /\ NoHistory

SpecViews == InitViews /\ [][NextViews]_vars


(***************************************************************************)
(* The Lead schema and POST /api/v1/leads: createLead.                     *)
(***************************************************************************)
\* the `lowercase: true` setter, on a text
RECURSIVE LowerString(_)
LowerString(s) ==
  IF Len(s) = 0 THEN ""
  ELSE ToLowerChar(CharAt(s, 1)) \o LowerString(SubSeq(s, 2, Len(s)))

\* \w
WordChar(c) ==
  c \in UpperLetters \cup {LowerSeq[i] : i \in DOMAIN LowerSeq} \cup DigitChars \cup {"_"}

\* /^\w+([.-]?\w+)*$/
WordRun(s) ==
  /\ Len(s) > 0
  /\ WordChar(CharAt(s, 1))
  /\ WordChar(CharAt(s, Len(s)))
  /\ \A i \in 1..Len(s) : WordChar(CharAt(s, i)) \/ CharAt(s, i) \in {".", "-"}
  /\ \A i \in 1..(Len(s) - 1) : WordChar(CharAt(s, i)) \/ WordChar(CharAt(s, i + 1))

\* /^\w+([.-]?\w+)*@\w+([.-]?\w+)*(\.\w{2,3})+$/
EmailMatch(s) ==
  \E at \in Positions(s, "@") :
    /\ WordRun(SubSeq(s, 1, at - 1))
    /\ \E dot \in Positions(s, ".") :
         /\ dot > at
         /\ WordRun(SubSeq(s, at + 1, dot - 1))
         /\ Len(s) - dot \in 2..3
         /\ \A i \in (dot + 1)..Len(s) : WordChar(CharAt(s, i))

\* /^[6-9]\d{9}$/
PhoneMatch(s) ==
  /\ Len(s) = 10
  /\ CharAt(s, 1) \in {"6", "7", "8", "9"}
  /\ \A i \in 1..Len(s) : CharAt(s, i) \in DigitChars

LeadNameMaxLength == 100

\* the setters of the schema on the paths createLead assigns
LeadSetters(d) ==
  [d EXCEPT !.name = StringTrim(@), !.email = LowerString(StringTrim(@)),
            !.phone = StringTrim(@), !.college = StringTrim(@)]

\* Document.validate() of a Lead
LeadValidationErrors(d) ==
  {f \in {"name", "email", "phone", "college", "source", "submissionCount"} :
     \/ f = "name" /\ (d.name = "" \/ Len(d.name) > LeadNameMaxLength)
     \/ f = "email" /\ ~EmailMatch(d.email)
     \/ f = "phone" /\ ~PhoneMatch(d.phone)
     \/ f = "college" /\ (d.college = "" \/ Len(d.college) > LeadNameMaxLength)
     \/ f = "source" /\ d.source \notin {"website_popup", "contact_form", "referral",
                                          "social_media", "other"}
     \/ f = "submissionCount" /\ d.submissionCount < 1}

\* a field of req.body that is absent reads as undefined, falsy like ''
BodyField(body, f) == IF f \in DOMAIN body THEN body[f] ELSE ""

\* Lead.findOne({ email }): the filter is cast with the setters of the path;
\* the first match in insertion order
FindLead(email) ==
  LET found == {k \in DOMAIN leads : leads[k].email = LowerString(StringTrim(email))}
  IN  IF found = {} THEN 0 ELSE CHOOSE k \in found : \A j \in found : k <= j

\* destructuring, the required-field check, findOne, and the document that
\* will be saved: the existing lead with the new submission, or a new lead
CreateLeadFind(p, body) ==
  /\ Free(p)
  /\ LET name    == BodyField(body, "name")
         email   == BodyField(body, "email")
         phone   == BodyField(body, "phone")
         college == BodyField(body, "college")
         source  == IF "source" \in DOMAIN body THEN body.source ELSE "website_popup"
         k       == FindLead(email)
     IN  IF name = "" \/ email = "" \/ phone = "" \/ college = ""
         THEN /\ req' = [req EXCEPT ![p] =
                           [IdleReq EXCEPT !.pc = "done", !.op = "createLead",
                                           !.resp = Json(400)]]
              /\ UNCHANGED nextKey
         ELSE IF k # 0
         THEN /\ req' = [req EXCEPT ![p] =
                           [IdleReq EXCEPT
                              !.pc = "l_update", !.op = "createLead", !.key = k,
                              !.doc = LeadSetters(
                                        [leads[k] EXCEPT
                                           !.name = name, !.phone = phone,
                                           !.college = college, !.source = source,
                                           !.submissionCount = @ + 1,
                                           !.status = "resubmitted"])]]
              /\ UNCHANGED nextKey
         ELSE /\ req' = [req EXCEPT ![p] =
                           [IdleReq EXCEPT
                              !.pc = "l_insert", !.op = "createLead", !.key = nextKey,
                              !.doc = LeadSetters(
                                        [name |-> name, email |-> email,
                                         phone |-> phone, college |-> college,
                                         source |-> source, status |-> "new",
                                         submissionCount |-> 1])]]
              /\ nextKey' = nextKey + 1
  /\ UNCHANGED <<store, leads>>

\* existingLead.save() or lead.save(), the answer, and the catch
CreateLeadSave(p) ==
  /\ req[p].pc \in {"l_update", "l_insert"}
  /\ LET k   == req[p].key
         doc == req[p].doc
     IN  IF LeadValidationErrors(doc) # {}
         THEN /\ req' = Finish(p, Json(400))
              /\ UNCHANGED leads
         ELSE IF req[p].pc = "l_insert"
         THEN /\ leads' = (k :> doc) @@ leads
              /\ req' = Finish(p, Json(201))
         ELSE IF k \notin DOMAIN leads
         THEN /\ req' = Finish(p, Json(500))
              /\ UNCHANGED leads
         ELSE /\ leads' = [leads EXCEPT ![k] = [doc EXCEPT !.email = leads[k].email]]
              /\ req' = Finish(p, Json(200))
  /\ UNCHANGED <<store, nextKey>>

(***************************************************************************)
(* SpecLeads: createLead on two request slots.                             *)
(***************************************************************************)
LeadBody(email, phone) ==
  [name |-> "Asha", email |-> email, phone |-> phone, college |-> "GEC"]

LeadBodies ==
  { LeadBody("asha@x.in", "9876543210"),
    LeadBody("Asha@X.in ", "9876543210"),
    LeadBody("ravi@x.in", "9876543210"),
    LeadBody("asha@x.in", "12345"),
    LeadBody("asha.x.in", "9876543210"),
    [name |-> "Asha", email |-> "asha@x.in", phone |-> "9876543210"] }

RECURSIVE Submissions(_)
Submissions(keys) ==
  IF keys = {} THEN 0
  ELSE LET k == CHOOSE j \in keys : TRUE
       IN  leads[k].submissionCount + Submissions(keys \ {k})

\* the submissions recorded and those on their way
SubmissionsLeft ==
  Submissions(DOMAIN leads)
    + Cardinality({p \in Procs : req[p].pc \in {"l_update", "l_insert"}})
    < MaxSubmissions

\* the handlers of leads leave the ProblemStatement history alone
NoLeadHistory ==
  UNCHANGED <<allocLog, run, created, retry, imports, asked, hits, calc, gen>>

NextLeads ==
  \E p \in Procs :
    \/ \E b \in LeadBodies :
         /\ CreateLeadFind(p, b)
         /\ KeysLeft(1, MaxLeadKeys)
         /\ SubmissionsLeft
         /\ NoLeadHistory
    \/ CreateLeadSave(p) /\ NoLeadHistory

SpecLeads == Init /\ [][NextLeads]_vars

(***************************************************************************)
(* Properties.                                                             *)
(***************************************************************************)
\* the format of a custom id, read off its characters
FormatValid(v) ==
  /\ Len(v) \in {5, 6}
  /\ \A n \in 1..Len(v) :
       IF n <= Len(v) - 3 THEN v[n] \in UpperLetters ELSE v[n] \in DigitChars

DigitValue(c) == CHOOSE n \in 0..9 : DigitSeq[n + 1] = c

\* the number the three trailing characters of an id spell, when they are digits
Suffix(v) ==
  LET n == Len(v)
  IN  100 * DigitValue(v[n - 2]) + 10 * DigitValue(v[n - 1]) + DigitValue(v[n])

\* n in decimal, three digits wide
ThreeDigits(n) ==
  << DigitSeq[(n \div 100) + 1], DigitSeq[((n \div 10) % 10) + 1],
     DigitSeq[(n % 10) + 1] >>

\* C6: whatever the number of documents already in the domain, the id the
\* allocator produces has the format of 2-3 uppercase letters and exactly
\* three digits.
C6_AllocatedIdFormatValid ==
  (gen.pc = "saved" /\ ~FormatValid(gen.given)) => FormatValid(gen.doc.id)

\* C7: per domain, the suffixes of the ids the allocator assigned grow
\* strictly in the order of assignment, whatever creations, updates and
\* deletions came between.
C7_SuffixStrictlyIncreasing ==
  \A d \in DOMAIN allocLog :
    \A m, n \in DOMAIN allocLog[d] :
      m < n => Suffix(allocLog[d][m]) < Suffix(allocLog[d][n])

\* C2: creations without an id that follow one another, and nothing else,
\* into a domain D that had no document all succeed, the n-th receiving
\* prefix(D) followed by n in three digits.
C2_SequentialRunIsDense ==
  run.domain # "" =>
    \A n \in DOMAIN run.outs :
      /\ run.outs[n].ok
      /\ run.outs[n].id = domainPrefixMap[run.domain] \o ThreeDigits(n)

\* C4: a stored document whose custom id is format-valid keeps that id in
\* every step that leaves the document in the collection.
C4_ValidIdNeverChanges ==
  [][\A k \in DOMAIN store :
       (FormatValid(store[k].id) /\ k \in DOMAIN store')
         => store'[k].id = store[k].id]_vars

\* C1: no two documents of the collection carry the same custom id, however
\* createProblem, the bulk import, updateProblem, updateProblemStatus,
\* toggleFeatured and deleteProblem interleave.
C1_CustomIdUnique ==
  \A j, k \in DOMAIN store : j # k => store[j].id # store[k].id

\* C1: two documents are stored and a write was refused for its duplicate id
C1_Witness ==
  /\ Cardinality(DOMAIN store) >= 2
  /\ \E p \in Procs : req[p].pc = "done" /\ req[p].resp = NextError("E11000")

\* C5: a document that reaches the pre-save hook with a format-valid id
\* leaves it with that very id, whatever its domain and whatever the count.
C5_ValidIdKeptVerbatim ==
  (gen.pc = "saved" /\ FormatValid(gen.given)) => gen.doc.id = gen.given

\* C5: an id of another prefix, in a domain that already holds 999 documents
C5_Witness ==
  /\ gen.pc = "saved"
  /\ gen.given = <<"W","E","B","0","4","2">>
  /\ gen.doc.domain = "AI & Machine Learning"
  /\ gen.count = 999
  /\ gen.doc.id = gen.given

\* C3: of two creations that derived their id from the same count of the
\* same domain, at most one reaches the collection, the id is stored at most
\* once, and an insert that did not reach the collection told its caller.
C3_RaceSurfacesConflict ==
  \A j, k \in DOMAIN created :
    (j # k /\ created[j].domain = created[k].domain
           /\ created[j].count = created[k].count)
      => /\ ~(created[j].outcome = "persisted" /\ created[k].outcome = "persisted")
         /\ created[j].outcome \in {"pending", "persisted", "error"}
         /\ Cardinality({x \in DOMAIN store : store[x].id = created[j].id}) <= 1

\* C3: both inserts of such a pair answered, one stored and one refused
C3_Witness ==
  \E j, k \in DOMAIN created :
    /\ j # k
    /\ created[j].domain = created[k].domain
    /\ created[j].count = created[k].count
    /\ created[j].outcome = "persisted"
    /\ created[k].outcome = "error"
    /\ j \in DOMAIN store
    /\ k \notin DOMAIN store

\* a bulk import that parsed its file and sent its report
BulkDone(r) ==
  r.op = "bulkUploadProblems" /\ r.pc = "done" /\ r.resp = Json(200)

\* a bulk import inside its loop
BulkLooping(r) == r.pc \in {"b_loop", "b_insert"}

\* the error entries gathered so far, or reported
ReportedErrors(r) == IF r.pc = "done" THEN r.results.errors ELSE r.errors

\* the rows (by row number) that have an entry of this field
RowsWithEntry(r, field) ==
  {ReportedErrors(r)[n].row : n \in {m \in DOMAIN ReportedErrors(r) :
                                      ReportedErrors(r)[m].field = field}}

\* C8: when a bulk import reports, imported + failed is the number of parsed
\* rows; inside the loop it is the number of rows handled so far.
C8_EveryRowCountedOnce ==
  \A p \in Procs :
    /\ BulkLooping(req[p]) =>
         req[p].results.imported + req[p].results.failed = req[p].i
    /\ BulkDone(req[p]) =>
         req[p].results.imported + req[p].results.failed = Len(req[p].rows)

\* C8: a report over two rows, one imported and one refused by the unique
\* index because another request took its id
C8_Witness ==
  \E p \in Procs :
    /\ BulkDone(req[p])
    /\ Len(req[p].rows) = 2
    /\ req[p].results.imported = 1
    /\ \E n \in DOMAIN req[p].results.errors :
         /\ req[p].results.errors[n].field = "database"
         /\ req[p].results.errors[n].message = "E11000"

\* the documents of the collection that a bulk import inserted
Added(r) == {k \in r.key..(r.key + Len(r.rows) - 1) : k \in DOMAIN store}

\* C9: the documents a bulk import has added are as many as it counts
\* imported, at every point of the loop and at the report; the row handled
\* n-th is in the collection exactly when no error entry names it.
C9_AddedEqualsImported ==
  \A p \in Procs :
    (BulkLooping(req[p]) \/ BulkDone(req[p])) =>
      /\ Cardinality(Added(req[p])) = req[p].results.imported
      /\ \A n \in 0..(req[p].i - 1) :
           (req[p].key + n \in DOMAIN store)
             <=> (n + 2 \notin RowsWithEntry(req[p], "validation")
                               \cup RowsWithEntry(req[p], "database"))

\* C9: the first row stays stored after the second was refused at persistence
C9_Witness ==
  \E p \in Procs :
    /\ BulkDone(req[p])
    /\ Len(req[p].rows) = 2
    /\ req[p].key \in DOMAIN store
    /\ req[p].key + 1 \notin DOMAIN store
    /\ RowsWithEntry(req[p], "database") = {3}

\* a row the per-row validation rejects: a required column blank after
\* trimming, or domain, category or difficulty outside its allowed values
RowFailsChecks(row) ==
  \/ row.title.len = 0
  \/ row.abstract.len = 0
  \/ row.duration.len = 0
  \/ row.domain.core \notin ValidDomains
  \/ row.category.core \notin ValidCategories
  \/ row.difficulty.core \notin ValidDifficulties

\* J: the rows of a file that fail the per-row validation
FailingRows(rows) == {n \in DOMAIN rows : RowFailsChecks(rows[n])}

\* C10 as stated: K rows of which J fail the per-row validation report
\* imported = K - J, failed = J and at least J error entries.
C10_Original ==
  \A p \in Procs :
    BulkDone(req[p]) =>
      LET K == Len(req[p].rows)
          J == Cardinality(FailingRows(req[p].rows))
      IN  /\ req[p].results.imported = K - J
          /\ req[p].results.failed = J
          /\ Len(req[p].results.errors) >= J

\* C10, amended: with P the rows that passed the per-row validation and were
\* refused at persistence (each has one 'database' entry), the report is
\* imported = K - J - P, failed = J + P and at least J + P error entries.
C10_CountsWithPersistenceFailures ==
  \A p \in Procs :
    BulkDone(req[p]) =>
      LET K == Len(req[p].rows)
          J == Cardinality(FailingRows(req[p].rows))
          P == Cardinality(RowsWithEntry(req[p], "database"))
      IN  /\ req[p].results.imported = K - J - P
          /\ req[p].results.failed = J + P
          /\ Len(req[p].results.errors) >= J + P
          /\ RowsWithEntry(req[p], "validation") =
               {n + 1 : n \in FailingRows(req[p].rows)}

\* C10: two rows, one failing the per-row validation with two messages, one
\* refused at persistence
C10_Witness ==
  \E p \in Procs :
    /\ BulkDone(req[p])
    /\ Len(req[p].rows) = 2
    /\ Cardinality(FailingRows(req[p].rows)) = 1
    /\ Cardinality(RowsWithEntry(req[p], "database")) = 1
    /\ Len(req[p].results.errors) = 3

\* the texts of the failures persistence raises in the model
FailureTexts == {"E11000", "ValidationError"}

\* the step of slot p ends the handling of a row that passed the per-row
\* validation without the row reaching the collection
RowRefusedStep(p) ==
  /\ BulkLooping(req[p])
  /\ req[p].i < Len(req[p].rows)
  /\ req'[p] # req[p]
  /\ req'[p].pc # "b_insert"
  /\ ~RowFailsChecks(req[p].rows[req[p].i + 1])
  /\ req[p].key + req[p].i \notin DOMAIN store'

\* C11: a row that passed the per-row validation and fails at persistence
\* adds exactly one entry (its row number, field 'database', the failure
\* text) and one to failed, nothing to imported, and the loop goes on with
\* the next row; a report is sent only after the last row.
C11_PersistenceFailureCaughtPerRow ==
  /\ [](\A p \in Procs : BulkDone(req[p]) => req[p].i = Len(req[p].rows))
  /\ [][\A p \in Procs :
          RowRefusedStep(p) =>
            /\ req'[p].pc = "b_loop"
            /\ req'[p].i = req[p].i + 1
            /\ req'[p].results.failed = req[p].results.failed + 1
            /\ req'[p].results.imported = req[p].results.imported
            /\ \E text \in FailureTexts :
                 req'[p].errors =
                   Append(req[p].errors,
                          [row |-> req[p].i + 2, field |-> "database",
                           message |-> text])]_vars

\* C11: the first row was refused at persistence and the second imported
C11_Witness ==
  \E p \in Procs :
    /\ BulkDone(req[p])
    /\ Len(req[p].rows) = 2
    /\ RowsWithEntry(req[p], "database") = {2}
    /\ req[p].key \notin DOMAIN store
    /\ req[p].key + 1 \in DOMAIN store
    /\ req[p].results.imported = 1

\* the required columns of a row that are missing or blank after trimming
BlankColumns(row) ==
  {f \in {"title", "abstract", "duration"} : row[f].len = 0}
    \cup {f \in {"domain", "category", "difficulty"} : row[f].core = ""}

\* the allowed values of an enumerated column
Allowed(f) ==
  CASE f = "domain" -> ValidDomains
    [] f = "category" -> ValidCategories
    [] f = "difficulty" -> ValidDifficulties

\* the enumerated columns of a row that hold text outside the allowed values
InvalidColumns(row) ==
  {f \in {"domain", "category", "difficulty"} :
     row[f].pad + (IF row[f].core = "" THEN 0 ELSE 1) > 0
       /\ row[f].core \notin Allowed(f)}

\* the failures of a row: one per blank required column, one per column
\* outside its allowed values
FailureCount(row) ==
  Cardinality(BlankColumns(row)) + Cardinality(InvalidColumns(row))

\* the entries about one row number
EntriesOfRow(r, rowNumber) ==
  {m \in DOMAIN ReportedErrors(r) : ReportedErrors(r)[m].row = rowNumber}

\* C12: a handled row with validation failures has one 'validation' entry
\* per failure and no other entry, is not in the collection, and failed
\* counts each row with entries once; a row with failures never reaches
\* the insert.
C12_ValidationAccumulates ==
  \A p \in Procs :
    (BulkLooping(req[p]) \/ BulkDone(req[p])) =>
      /\ \A n \in 1..req[p].i :
           FailureCount(req[p].rows[n]) > 0 =>
             /\ Cardinality(EntriesOfRow(req[p], n + 1)) = FailureCount(req[p].rows[n])
             /\ \A m \in EntriesOfRow(req[p], n + 1) :
                  ReportedErrors(req[p])[m].field = "validation"
             /\ req[p].key + n - 1 \notin DOMAIN store
      /\ req[p].results.failed =
           Cardinality({n \in 1..req[p].i : EntriesOfRow(req[p], n + 1) # {}})
      /\ req[p].pc = "b_insert" => FailureCount(req[p].rows[req[p].i + 1]) = 0

\* C12: a reported row without title and with a category outside the allowed
\* values: two entries, failed once, nothing stored
C12_Witness ==
  \E p \in Procs :
    /\ BulkDone(req[p])
    /\ "title" \in BlankColumns(req[p].rows[1])
    /\ InvalidColumns(req[p].rows[1]) = {"category"}
    /\ FailureCount(req[p].rows[1]) = 2
    /\ Len(req[p].results.errors) = 2
    /\ req[p].results.failed = 1
    /\ store = <<>>

\* a bulk import whose file the parser gave up on
ParseFailed(r) ==
  r.op = "bulkUploadProblems" /\ r.upload.file /\ ~r.upload.parses

\* C13: a bulk import whose file cannot be parsed ends at once with one
\* error handed to the error middleware: no counts, no entries, no row
\* taken up, and the step that answers leaves the collection as it was.
C13_ParseFailureFailsWholeCall ==
  /\ [](\A p \in Procs :
          ParseFailed(req[p]) =>
            /\ req[p].pc = "done"
            /\ req[p].resp = NextError("ParseError")
            /\ req[p].results = NoResults
            /\ req[p].errors = <<>>
            /\ req[p].rows = <<>>
            /\ req[p].i = 0
            /\ req[p].key = 0)
  /\ [][\A p \in Procs :
          (ParseFailed(req'[p]) /\ req'[p] # req[p]) =>
            (store' = store /\ nextKey' = nextKey)]_vars

\* C13: a parse failure answered while the collection holds documents
C13_Witness ==
  \E p \in Procs :
    /\ ParseFailed(req[p])
    /\ req[p].resp.via = "next"
    /\ Cardinality(DOMAIN store) >= 1

\* C14: for every handled row and every required column of it that is
\* missing or blank after trimming, exactly one error entry of that row has
\* that column as its field.
C14_OneEntryNamingEachBlankField ==
  \A p \in Procs :
    (BulkLooping(req[p]) \/ BulkDone(req[p])) =>
      \A n \in 1..req[p].i :
        \A f \in BlankColumns(req[p].rows[n]) :
          Cardinality({m \in EntriesOfRow(req[p], n + 1) :
                         ReportedErrors(req[p])[m].field = f}) = 1

\* C15: the error entries, gathered or reported, are in row order: an entry
\* never has a smaller row number than an entry before it, whichever of the
\* two kinds they are.
C15_ErrorsInRowOrder ==
  \A p \in Procs :
    \A m, n \in DOMAIN ReportedErrors(req[p]) :
      m < n => ReportedErrors(req[p])[m].row <= ReportedErrors(req[p])[n].row

\* C15: a report with entries of both kinds: validation entries of the
\* first row before the persistence entry of the second
C15_Witness ==
  \E p \in Procs :
    /\ BulkDone(req[p])
    /\ RowsWithEntry(req[p], "validation") = {2}
    /\ RowsWithEntry(req[p], "database") = {3}
    /\ Len(req[p].results.errors) = 3

\* the entry e of import r is about the data row at position n (the first
\* line after the header is position 1): a validation entry of a row that
\* fails the per-row validation, or a persistence entry of a row that
\* passed it and is not in the collection
AboutRow(r, e, n) ==
  \/ e.field = "validation" /\ RowFailsChecks(r.rows[n])
  \/ /\ e.field = "database"
     /\ ~RowFailsChecks(r.rows[n])
     /\ r.key + n - 1 \notin DOMAIN store

\* C16 as stated: the row number of every error entry is the position of
\* its data row, counted from 1, plus 2.
C16_Original ==
  \A p \in Procs :
    \A m \in DOMAIN ReportedErrors(req[p]) :
      \E n \in 1..Len(req[p].rows) :
        /\ ReportedErrors(req[p])[m].row = n + 2
        /\ AboutRow(req[p], ReportedErrors(req[p])[m], n)

\* C16, amended: the row number of every error entry is the position of
\* its data row, counted from 1, plus 1: the line of the file, the header
\* being line 1.
C16_RowNumberIsFileLine ==
  \A p \in Procs :
    \A m \in DOMAIN ReportedErrors(req[p]) :
      \E n \in 1..req[p].i :
        /\ ReportedErrors(req[p])[m].row = n + 1
        /\ AboutRow(req[p], ReportedErrors(req[p])[m], n)

\* C16: a report with an entry about the first data row and one about the
\* second
C16_Witness ==
  \E p \in Procs :
    /\ BulkDone(req[p])
    /\ Len(req[p].rows) = 2
    /\ \E m \in DOMAIN req[p].results.errors : req[p].results.errors[m].row = 2
    /\ \E m \in DOMAIN req[p].results.errors : req[p].results.errors[m].row = 3

\* the rows of an import whose outcome is recorded
Recorded(r) == r.results.imported + r.results.failed

\* C17: inside the loop of one import the index moves one row at a time and
\* exactly when the outcome of the row it leaves is recorded; the insert of
\* a row starts from the loop head, for the row at the index, with the
\* outcome of every row before it recorded, and while it is pending the
\* index and the counts stand still.
C17_RowsStrictlySequential ==
  /\ [](\A p \in Procs :
          req[p].pc = "b_insert" =>
            /\ Recorded(req[p]) = req[p].i
            /\ req[p].i < Len(req[p].rows)
            /\ req[p].doc.domain = req[p].rows[req[p].i + 1].domain.core)
  /\ [][\A p \in Procs :
          (BulkLooping(req[p]) /\ req'[p] # req[p]) =>
            /\ req'[p].rows = req[p].rows
            /\ req'[p].i \in {req[p].i, req[p].i + 1}
            /\ Recorded(req'[p]) - Recorded(req[p]) = req'[p].i - req[p].i
            /\ req'[p].pc = "b_insert" =>
                 (req[p].pc = "b_loop" /\ req'[p].i = req[p].i)
            /\ req[p].pc = "b_insert" =>
                 (req'[p].pc = "b_loop" /\ req'[p].i = req[p].i + 1)]_vars

\* C17: the insert of the second row is pending, the outcome of the first
\* is recorded
C17_Witness ==
  \E p \in Procs :
    /\ req[p].pc = "b_insert"
    /\ req[p].i = 1
    /\ Recorded(req[p]) = 1

\* C18: a creation that lost a race and is submitted again, alone, after the
\* winner is stored is not refused: it is stored, under the id derived from
\* the count it read.
C18_RetrySucceeds ==
  /\ retry.phase # "rejected"
  /\ retry.phase = "persisted" =>
       (retry.key \in DOMAIN store /\ store[retry.key].id = retry.id)

\* C19: an import of the text downloadTemplate sends imports its five rows:
\* the report says imported 5, failed 0, and lists no error.
C19_TemplateRoundTrip ==
  \A p \in SeqProcs :
    (/\ req[p].op = "bulkUploadProblems"
     /\ req[p].pc = "done"
     /\ req[p].rows = TemplateRows
     /\ req[p].resp = Json(200))
      => req[p].results = [imported |-> 5, failed |-> 0, errors |-> <<>>]

\* C20: an import of a file that follows an import of the same file leaves
\* the collection with the records the first one left.
C20_ImportIdempotent ==
  Len(imports) >= 2 => imports[Len(imports)] = imports[Len(imports) - 1]

\* C21: a record that enters the collection was put there by a createProblem
\* call or by a row of a bulk import, and its createdBy is the caller of that
\* request, whatever createdBy the body or the row carried.
C21_CreatedByIsCaller ==
  [][\A k \in DOMAIN store' \ DOMAIN store :
       \E p \in Procs :
         /\ req[p].pc \in {"c_insert", "b_insert"}
         /\ InsertKey(req[p]) = k
         /\ req'[p] # req[p]
         /\ store'[k].createdBy = req[p].user]_vars

\* C21 witness: a createProblem call whose body names another user and a row
\* with a createdBy column have both been stored under their callers.
C21_Witness ==
  /\ req["r1"].pc = "c_populate"
  /\ Has(req["r1"].body, "createdBy")
  /\ req["r1"].body.createdBy # req["r1"].user
  /\ req["r1"].key \in DOMAIN store
  /\ store[req["r1"].key].createdBy = req["r1"].user
  /\ req["r2"].op = "bulkUploadProblems"
  /\ req["r2"].pc = "b_loop"
  /\ req["r2"].i = 1
  /\ Has(req["r2"].rows[1], "createdBy")
  /\ req["r2"].rows[1].createdBy.core # req["r2"].user
  /\ req["r2"].key \in DOMAIN store
  /\ store[req["r2"].key].createdBy = req["r2"].user

\* the manual-creation rules, on the text without the blanks around it
ManualRulesViolated(b) ==
  \/ ~Has(b, "title") \/ ~Has(b, "abstract") \/ ~Has(b, "domain")
  \/ ~Has(b, "category") \/ ~Has(b, "difficulty") \/ ~Has(b, "duration")
  \/ ~Has(b, "technologies") \/ ~Has(b, "deliverables")
  \/ b.title.len < 5 \/ b.title.len > 200
  \/ b.abstract.len < 50 \/ b.abstract.len > 5000
  \/ b.domain \notin ValidDomains
  \/ b.category \notin {"Major", "Minor", "Capstone"}
  \/ b.difficulty \notin {"Beginner", "Intermediate", "Advanced"}
  \/ b.duration.len < 1 \/ b.duration.len > 50
  \/ b.technologies < 1
  \/ b.deliverables < 1

\* C22: a createProblem call whose body breaks a manual-creation rule is
\* answered 400 in that step; no record is constructed or stored.
C22_InvalidBodyRejected ==
  [][\A p \in SeqProcs :
       (/\ Free(p)
        /\ req'[p] # req[p]
        /\ ManualRulesViolated(asked.input))
         => /\ req'[p].pc = "done"
            /\ req'[p].op = "createProblem"
            /\ req'[p].resp = Json(400)
            /\ store' = store
            /\ nextKey' = nextKey]_vars

\* C22 witness: a createProblem call has been answered 400 while a record of
\* an earlier call is in the collection.
C22_Witness ==
  /\ ManualRulesViolated(asked.input)
  /\ req["r1"].op = "createProblem"
  /\ req["r1"].pc = "done"
  /\ req["r1"].resp = Json(400)
  /\ DOMAIN store # {}

\* the request came from an existing admin or faculty user with a verified
\* token, and the file it uploaded, if any, is a CSV file by declared type
\* or by name, within the size limit
Admitted(a) ==
  /\ a.user.kind = "verified"
  /\ a.user.id \in {"admin1", "faculty1"}
  /\ a.input.file =>
       /\ \/ a.input.mimetype = "text/csv"
          \/ a.input.originalname \in {"problems.csv"}
       /\ a.input.size <= 5 * 1024 * 1024

\* the handler of the bulk import has run in the slot's current request
HandlerRan(r) ==
  /\ r.op = "bulkUploadProblems"
  /\ \/ r.pc \in {"b_loop", "b_insert"}
     \/ r.pc = "done" /\ r.resp.via = "json"
     \/ r.pc = "done" /\ r.resp = NextError("ParseError")

\* C23: the bulk-import handler has run only for admitted requests, and a
\* request that is not admitted is turned away by the middleware in the step
\* it arrives, with the collection and the id counter as they were.
C23_BulkImportGated ==
  /\ [](\A p \in SeqProcs : HandlerRan(req[p]) => Admitted(asked))
  /\ [][\A p \in SeqProcs :
          (Free(p) /\ req'[p] # req[p] /\ ~Admitted(asked'))
            => /\ req'[p].pc = "done"
               /\ req'[p].resp.via = "next"
               /\ req'[p].resp.error \in {"401", "403", "LIMIT_FILE_SIZE",
                                           "Only CSV files are allowed"}
               /\ store' = store
               /\ nextKey' = nextKey]_vars

\* C23 witness: a student's upload of a CSV file was turned away with 403
\* while a record of an earlier, admitted import is in the collection.
C23_Witness ==
  /\ asked.op = "bulkUploadProblems"
  /\ asked.user = GoodToken("student1")
  /\ asked.input.file
  /\ asked.input.mimetype = "text/csv"
  /\ req["r1"].pc = "done"
  /\ req["r1"].resp = NextError("403")
  /\ DOMAIN store # {}

\* the characters of s that are neither blanks nor semicolons, in order
RECURSIVE Squash(_)
Squash(s) ==
  IF Len(s) = 0 THEN ""
  ELSE IF CharAt(s, 1) \in {" ", ";"} THEN Squash(SubSeq(s, 2, Len(s)))
  ELSE CharAt(s, 1) \o Squash(SubSeq(s, 2, Len(s)))

RECURSIVE Concat(_)
Concat(parts) == IF parts = <<>> THEN "" ELSE Head(parts) \o Concat(Tail(parts))

\* the stretches of s between semicolons that hold more than blanks
SolidStretches(s) ==
  LET ends == Positions(s, ";") \cup {0, Len(s) + 1}
  IN  {<<a, b>> \in ends \X ends :
         /\ a < b
         /\ \A e \in ends : ~(a < e /\ e < b)
         /\ \E i \in (a + 1)..(b - 1) : CharAt(s, i) # " "}

IsPartOf(part, s) ==
  \E i \in 1..Len(s) : i + Len(part) - 1 <= Len(s)
                       /\ SubSeq(s, i, i + Len(part) - 1) = part

\* C24: the parsed list holds, in the order of the column, one entry for
\* every stretch between semicolons that is not blank: the stretch without
\* the blanks around it.  An empty, blank or absent column gives no entry,
\* and "Python;TensorFlow; React " gives Python, TensorFlow, React.
C24_ListColumnParsed ==
  calc.pc = "parsed" =>
    LET s == IF "technologies" \in DOMAIN calc.row THEN calc.row.technologies ELSE ""
        r == calc.parsed
    IN  /\ Len(r) = Cardinality(SolidStretches(s))
        /\ Concat([k \in DOMAIN r |-> Squash(r[k])]) = Squash(s)
        /\ \A k \in DOMAIN r :
             /\ r[k] # ""
             /\ Positions(r[k], ";") = {}
             /\ CharAt(r[k], 1) # " "
             /\ CharAt(r[k], Len(r[k])) # " "
             /\ IsPartOf(r[k], s)
        /\ Squash(s) = "" => r = <<>>
        /\ s = "Python;TensorFlow; React " => r = <<"Python", "TensorFlow", "React">>

\* C24 witness: a column with a padded part, an empty part and a plain part
\* has been parsed into two entries.
C24_Witness ==
  /\ calc.pc = "parsed"
  /\ "technologies" \in DOMAIN calc.row
  /\ calc.row.technologies = " a;;b"
  /\ calc.parsed = <<"a", "b">>

\* C25: the record of an imported row is featured exactly when the row has
\* a featured column whose text is "true" in some mix of upper and lower
\* case; any other text, a blank one or no column at all gives false.
C25_FeaturedParsed ==
  1 \in DOMAIN store =>
    (store[1].featured <=>
       ("featured" \in DOMAIN asked.input
        /\ asked.input.featured \in
             {"true", "True", "tRue", "trUe", "truE", "TRue", "TrUe", "TruE",
              "tRUe", "tRuE", "trUE", "TRUe", "TRuE", "TrUE", "tRUE", "TRUE"}))

\* C25 witness: a row whose featured column reads "TrUe" has been stored as
\* a featured record.
C25_Witness ==
  /\ 1 \in DOMAIN store
  /\ "featured" \in DOMAIN asked.input
  /\ asked.input.featured = "TrUe"
  /\ store[1].featured

\* C26: every record in the answer of the public list has status Active.
C26_PublicListOnlyActive ==
  \A p \in SeqProcs :
    (req[p].op = "getProblems" /\ req[p].pc = "done")
      => \A i \in DOMAIN req[p].data : req[p].data[i].status = "Active"

\* C27: with requests handled one at a time and no id ever supplied, the id
\* the allocator derives for a creation is held by no record: the insert is
\* not refused and the creation is not answered with a duplicate-key error.
C27_SequentialCreateSucceeds ==
  \A p \in SeqProcs :
    /\ req[p].pc = "c_insert"
         => \A k \in DOMAIN store : store[k].id # req[p].doc.id
    /\ (req[p].op = "createProblem" /\ req[p].pc = "done")
         => req[p].resp # NextError("E11000")

\* the requester of the edit in `a` may edit the record it names
MayEdit(a) ==
  /\ a.input.key \in DOMAIN store
  /\ \/ store[a.input.key].createdBy = a.user
     \/ a.user = "admin1"

\* an edit arrives in this step in slot p
EditArrives(p) ==
  /\ Free(p)
  /\ req'[p] # req[p]
  /\ req'[p].op \in {"updateProblem", "updateProblemStatus"}

\* a step of an edit that changes the collection is made for a requester who
\* may edit the record, and changes that record only
WritesGated ==
  \A p \in SeqProcs :
    (req[p].op \in {"updateProblem", "updateProblemStatus"} /\ store' # store)
      => /\ MayEdit(asked)
         /\ DOMAIN store' = DOMAIN store
         /\ \A k \in DOMAIN store \ {asked.input.key} : store'[k] = store[k]

\* C28 as stated: an edit is written only for the creator or an admin; an
\* edit by anyone else is answered 403, an edit of a record that does not
\* exist 404, both with the collection unchanged.
C28_Original ==
  [][/\ WritesGated
     /\ \A p \in SeqProcs :
          EditArrives(p) =>
            /\ asked'.input.key \notin DOMAIN store
                 => (req'[p].pc = "done" /\ req'[p].resp = Json(404)
                     /\ store' = store)
            /\ (asked'.input.key \in DOMAIN store /\ ~MayEdit(asked'))
                 => (req'[p].pc = "done" /\ req'[p].resp = Json(403)
                     /\ store' = store)]_vars

\* updateProblemStatus was asked for a status outside Active, Draft, Archived
BadStatusAsked(a) ==
  /\ a.op = "updateProblemStatus"
  /\ a.input.change \notin {"Active", "Draft", "Archived"}

\* C28: an edit is written only for the creator or an admin.  An
\* updateProblemStatus with an invalid status is answered 400 before the
\* record is looked up; any other edit by someone else is answered 403, and
\* of a record that does not exist 404; all three leave the collection
\* unchanged.
C28_EditsGated ==
  [][/\ WritesGated
     /\ \A p \in SeqProcs :
          EditArrives(p) =>
            /\ BadStatusAsked(asked')
                 => (req'[p].pc = "done" /\ req'[p].resp = Json(400)
                     /\ store' = store)
            /\ (~BadStatusAsked(asked') /\ asked'.input.key \notin DOMAIN store)
                 => (req'[p].pc = "done" /\ req'[p].resp = Json(404)
                     /\ store' = store)
            /\ (~BadStatusAsked(asked') /\ asked'.input.key \in DOMAIN store
                /\ ~MayEdit(asked'))
                 => (req'[p].pc = "done" /\ req'[p].resp = Json(403)
                     /\ store' = store)]_vars

\* C28 witness: another faculty user's status change of an existing record
\* has been answered 403.
C28_Witness ==
  /\ asked.op = "updateProblemStatus"
  /\ asked.user = "faculty2"
  /\ asked.input.change = "Active"
  /\ asked.input.key \in DOMAIN store
  /\ store[asked.input.key].createdBy = "faculty1"
  /\ req["r1"].op = "updateProblemStatus"
  /\ req["r1"].pc = "done"
  /\ req["r1"].resp = Json(403)

\* C29: every record's viewCount is the number of lookups by custom id that
\* were answered 200 for it (the records start at 0), however the lookups,
\* status changes and featured toggles interleave; it is never negative; a
\* lookup answered 404 changes no record.
C29_ViewCountExact ==
  /\ [](\A k \in DOMAIN store :
          store[k].viewCount = hits[k] /\ store[k].viewCount >= 0)
  /\ [][\A p \in Procs :
          (Free(p) /\ req'[p] # req[p]
           /\ req'[p].op = "getProblemByCustomId"
           /\ req'[p].pc = "done" /\ req'[p].resp = Json(404))
            => (store' = store /\ hits' = hits)]_vars

\* C29 witness: two lookups of one record that were in flight together have
\* both been answered while its status and featured flag were changed.
C29_Witness ==
  /\ hits[1] = 2
  /\ store[1].viewCount = 2
  /\ store[1].status = "Archived"
  /\ store[1].featured
  /\ \A p \in Procs : req[p].op = "getProblemByCustomId" /\ req[p].pc = "done"

\* C30: no two Lead documents have the same email address.
C30_OneLeadPerEmail ==
  \A j \in DOMAIN leads, k \in DOMAIN leads :
    leads[j].email = leads[k].email => j = k

====
